---- MODULE Spec2Model ----
(***************************************************************************)
(* Verification model of the orbit-ops conjunction screening engine.       *)
(*                                                                         *)
(* The module holds these state machines:                                  *)
(*   SpecGrid  the spatial-hash screener (SpatialGrid), the naive          *)
(*             screener and CollisionProbabilityCalculator::calculate_all  *)
(*   SpecHist  HistoryRecorder, called from several threads; SpecHistFifo  *)
(*             and SpecHistFile are the same recorder with one caller      *)
(*   SpecSrv   the RPC handlers of OrbitOpsServiceImpl on the shared       *)
(*             State Store, with the recorder StreamConjunctions writes to *)
(*   SpecProp  the SGP4 propagator over a catalogue of elements            *)
(*   SpecMan   ManeuverOptimizer::calculate_avoidance                      *)
(*   SpecMc    CollisionProbabilityCalculator::calculate (Monte Carlo)     *)
(*   SpecQuery HistoryRecorder::get_snapshot_at / get_snapshot_nearest     *)
(*   SpecScrub TimeScrubber on a recorder                                  *)
(*   SpecHash  the neighbour lookup of the screener far from the origin    *)
(*   SpecHistCaps  the recorder with one caller and small caps             *)
(*   SpecStream    the streaming handlers under a fair scheduler           *)
(*   SpecMerge merge_tle_sets                                              *)
(*   SpecFetch TLEUpdater::fetch_sync and its retry loop                   *)
(*   SpecSim   OrbitOpsServiceImpl::SimulateManeuver                       *)
(*   SpecAuto  TLEUpdater::start_auto_update / stop_auto_update, called    *)
(*             from several threads, and the loops they start              *)
(* A specification leaves the variables it does not use at their initial   *)
(* value.                                                                  *)
(*                                                                         *)
(* Distances are kept squared (integers); a comparison sqrt(d2) < t of the *)
(* source is modelled exactly as  t > 0 /\ d2 < t*t.                       *)
(***************************************************************************)
EXTENDS Integers, Sequences, FiniteSets, TLC

VARIABLES
    \* ---- screener (SatelliteSystem, SpatialGrid, calculate_all) ----
    gpc,            \* position of the screening pass
    pos,            \* sys.x/y/z: object index -> <<x, y, z>> (km)
    catalog,        \* sys.catalog_numbers: object index -> catalog number
    threshold,      \* threshold_km
    cell_size,      \* SpatialGrid::cell_size
    grid,           \* SpatialGrid::grid: cell key -> indices in insertion order
    conjunctions,   \* result of find_conjunctions
    prob_results,   \* result of calculate_all
    probe,          \* the last neighbour lookup of find_conjunctions followed on its own
    \* ---- HistoryRecorder ----
    recording,      \* recording_
    config,         \* config_
    snapshots,      \* snapshots_
    events,         \* conjunctions_ (the event deque)
    mutex,          \* mutex_: 0 when free, else the owning thread
    hpc,            \* per thread: position inside a public operation
    harg,           \* per thread: argument or local of the running operation
    file,           \* the exported history file (<<>> while none was written)
    gate,           \* ghost: "new", "started" (start called) or "stopped" (stop returned)
    recorded,       \* ghost: last snapshots appended since the cap or the deque was set
    exported,       \* ghost: the deques as they were when the file was written
    after_import,   \* ghost: the last operation that finished was an import of the file
    \* ---- OrbitOpsServiceImpl ----
    spc,            \* per handler thread: position inside an RPC handler
    system_mutex,   \* system_mutex_: 0 when free, else the owning thread
    store_time,     \* time system_ was last propagated to (Fresh: never propagated)
    tles_count,     \* tles_.size()
    debris_count,   \* number of debris objects debris_model_ matches in tles_
    loop_t,         \* per handler thread: the loop variable t of the running handler
    steps_left,     \* per handler thread: iterations left until t > end
    sarg,           \* per handler thread: the ids of the request
    cancelled,      \* per handler thread: context->IsCancelled()
    \* ---- propagate_all_optimized on one store ----
    ppc,            \* "idle", "running" (inside the parallel loop) or "done"
    elements,       \* element columns: object index -> incl, raan0, ecc, argp0, M0, n0, a0
    state,          \* position and velocity columns: object index -> x, y, z, vx, vy, vz
    prop_t,         \* time_minutes of the running or last call
    prop_threads,   \* number of OpenMP threads of the running or last call
    iter,           \* per OpenMP thread: how many of its iterations it has executed
    calls,          \* ghost: <<time_minutes, threads>> of the calls that returned
    first_result,   \* ghost: time_minutes -> columns left by the first call at that time
    \* ---- ManeuverOptimizer ----
    spacecraft_,    \* spacecraft_: mass_kg, isp_g0 (isp_s * g0), fuel_mass_kg
    safe_distance_, \* safe_distance_
    man_args,       \* arguments of the last calculate_avoidance call (<<>> before the first)
    man_conf,       \* ghost: <<spacecraft_, safe_distance_>> as the last call found them
    result,         \* ManeuverResult of the last call (<<>> before the first)
    \* ---- CollisionProbabilityCalculator (Monte Carlo) ----
    rng_,           \* rng_: the state of the generator
    sample_count_,  \* sample_count_
    collision_radius_, \* collision_radius_
    mc_seed,        \* ghost: the seed the calculator was constructed with
    mc_fresh,       \* ghost: the last calculate was the first since construction
    mc_args,        \* arguments of the last calculate (<<>> before the first)
    mc_result,      \* ConjunctionProbability of the last calculate (<<>> before the first)
    \* ---- snapshot queries of HistoryRecorder ----
    q_op,           \* the last query: "none", "at" or "nearest"
    q_time,         \* its argument time_minutes
    q_deque,        \* ghost: snapshots_ as the query found it
    q_result,       \* what it returned: <<>> (std::nullopt) or <<snapshot>>
    \* ---- TimeScrubber ----
    current_time_,  \* current_time_
    playback_speed_, \* playback_speed_, in 1/SpeedScale
    playing_,       \* playing_
    callback_,      \* whether callback_ is set
    cb_log,         \* the snapshot handed to the last callback_ invocation: <<>> before
                    \* the first, else <<s>> with s = <<>> for nullptr
    \* ---- TLEUpdater and merge_tle_sets ----
    merge_args,     \* <<existing, updates>> of a merge_tle_sets call (<<>>: none)
    merge_result,   \* <<>> until the call returns, then <<the vector it returned>>
    max_retries_,   \* max_retries_
    stats_,         \* stats_: total_fetches, successful_fetches, failed_fetches
    fpc,            \* fetch_sync: "loop" inside the loop, "done" when it has just returned
    attempts,       \* local attempts of fetch_sync
    data,           \* local data of fetch_sync
    responses,      \* ghost: what each http_get of the call gave, in order
    fetch_result,   \* TLEFetchResult of the last fetch_sync that returned (<<>>: none)
    \* ---- SimulateManeuver ----
    sim_tles,       \* tles_ as element rows (create_satellite_system copies them)
    sim_request,    \* the last ManeuverRequest (<<>> before the first)
    sim_response,   \* its ManeuverResponse, with the ghost field burn_velocity
    \* ---- TLEUpdater auto-update ----
    auto_update_running_, \* std::atomic<bool>
    update_thread_, \* std::unique_ptr<std::thread>: 0 (null) or the index of a thread in loops
    apc,            \* caller -> position in start_auto_update / stop_auto_update
    made,           \* caller -> the thread it holds: made by make_unique, or being joined
    loops,          \* the std::thread objects created: position of auto_update_loop, joined
    terminated      \* std::terminate was called

gridVars == <<gpc, pos, catalog, threshold, cell_size, grid, conjunctions, prob_results,
              probe>>
histVars == <<recording, config, snapshots, events, mutex, hpc, harg, file, gate,
              recorded, exported, after_import>>
srvVars  == <<spc, system_mutex, store_time, tles_count, debris_count, loop_t, steps_left,
              sarg, cancelled>>
propVars == <<ppc, elements, state, prop_t, prop_threads, iter, calls, first_result>>
manVars  == <<spacecraft_, safe_distance_, man_args, man_conf, result>>
mcVars   == <<rng_, sample_count_, collision_radius_, mc_seed, mc_fresh, mc_args, mc_result>>
qryVars  == <<q_op, q_time, q_deque, q_result>>
scrubVars == <<current_time_, playback_speed_, playing_, callback_, cb_log>>
mergeVars == <<merge_args, merge_result>>
fetchVars == <<max_retries_, stats_, fpc, attempts, data, responses, fetch_result>>
updVars  == <<mergeVars, fetchVars>>
simVars  == <<sim_tles, sim_request, sim_response>>
autoVars == <<auto_update_running_, update_thread_, apc, made, loops, terminated>>
restVars == <<propVars, manVars, mcVars, qryVars, scrubVars, updVars, simVars, autoVars>>
vars     == <<gridVars, histVars, srvVars, restVars>>

\* the variables of a component no specification of which is running
PropIdle ==
    /\ ppc = "off" /\ elements = <<>> /\ state = <<>> /\ prop_t = 0 /\ prop_threads = 0
    /\ iter = <<>> /\ calls = <<>> /\ first_result = <<>>
ManIdle ==
    /\ spacecraft_ = <<>> /\ safe_distance_ = 0 /\ man_args = <<>> /\ man_conf = <<>>
    /\ result = <<>>
McIdle ==
    /\ rng_ = 0 /\ sample_count_ = 0 /\ collision_radius_ = 0 /\ mc_seed = 0
    /\ mc_fresh = FALSE /\ mc_args = <<>> /\ mc_result = <<>>
QryIdle == q_op = "none" /\ q_time = 0 /\ q_deque = <<>> /\ q_result = <<>>
ScrubIdle ==
    /\ current_time_ = 0 /\ playback_speed_ = 0 /\ playing_ = FALSE /\ callback_ = FALSE
    /\ cb_log = <<>>
MergeIdle == merge_args = <<>> /\ merge_result = <<>>
FetchIdle ==
    /\ max_retries_ = 0 /\ stats_ = <<>> /\ fpc = "off" /\ attempts = 0 /\ data = ""
    /\ responses = <<>> /\ fetch_result = <<>>
UpdIdle == MergeIdle /\ FetchIdle
SimIdle == sim_tles = <<>> /\ sim_request = <<>> /\ sim_response = <<>>
AutoIdle ==
    /\ auto_update_running_ = FALSE /\ update_thread_ = 0 /\ apc = <<>> /\ made = <<>>
    /\ loops = <<>> /\ terminated = FALSE
RestIdle ==
    PropIdle /\ ManIdle /\ McIdle /\ QryIdle /\ ScrubIdle /\ UpdIdle /\ SimIdle /\ AutoIdle
propOthers == <<gridVars, histVars, srvVars, manVars, mcVars, qryVars, scrubVars, updVars, simVars,
               autoVars>>
manOthers  == <<gridVars, histVars, srvVars, propVars, mcVars, qryVars, scrubVars, updVars, simVars,
               autoVars>>
mcOthers   == <<gridVars, histVars, srvVars, propVars, manVars, qryVars, scrubVars, updVars, simVars,
               autoVars>>
qryOthers  == <<gridVars, histVars, srvVars, propVars, manVars, mcVars, scrubVars, updVars, simVars,
               autoVars>>
scrubOthers == <<gridVars, histVars, srvVars, propVars, manVars, mcVars, qryVars, updVars, simVars,
               autoVars>>
updOthers  == <<gridVars, histVars, srvVars, propVars, manVars, mcVars, qryVars, scrubVars, simVars,
               autoVars>>
simOthers  == <<gridVars, histVars, srvVars, propVars, manVars, mcVars, qryVars, scrubVars,
               updVars, autoVars>>
autoOthers == <<gridVars, histVars, srvVars, propVars, manVars, mcVars, qryVars, scrubVars,
               updVars, simVars>>
mergeOthers == <<updOthers, fetchVars>>
fetchOthers == <<updOthers, mergeVars>>

(***************************************************************************)
(* Generic sequence helpers.                                               *)
(***************************************************************************)
RECURSIVE Flatten(_)
Flatten(ss) == IF Len(ss) = 0 THEN <<>> ELSE Head(ss) \o Flatten(Tail(ss))

SeqToSet(s) == {s[k] : k \in 1..Len(s)}

(***************************************************************************)
(* Screener: bounds and inputs.                                            *)
(***************************************************************************)
NumObjects == 3                       \* sys.count
Objects    == 0..(NumObjects - 1)
Threads    == {"w1", "w2"}            \* OpenMP worker threads
ThreadOrder == <<"w1", "w2">>         \* order of thread_conjunctions[]

CoordX == {-5, 55}
CoordY == {20, 70}
CoordZ == {20, 70}
Points == CoordX \X CoordY \X CoordZ
Thresholds == {-60, 40, 60, 80}
TimeMinutes == 0

\* catalog numbers above the object count (as in the tests) or below it and
\* in the opposite order of the store indices
CatalogChoices == { [i \in Objects |-> 1000 + i],
                    [i \in Objects |-> (NumObjects - 1) - i] }

\* sys.vx/vy/vz: the velocity column, distinct per object
vel == [i \in Objects |-> <<7 + i * i, 0, 0>>]

DefaultCellKm == 50
CellBias == 1048576      \* 1 << 20
CellMask == 2097152      \* 0x1FFFFF + 1: "& 0x1FFFFF" is "% 2^21"

Max(a, b) == IF a >= b THEN a ELSE b

\* SpatialGrid::pos_to_cell: floor(pos * inv_cell_size)
pos_to_cell(p, cs) == p \div cs

\* SpatialGrid::pack_cell. The 63-bit key (ux << 42) | (uy << 21) | uz is kept
\* as the triple of its three 21-bit fields.
pack_cell(cx, cy, cz) ==
    << (cx + CellBias) % CellMask, (cy + CellBias) % CellMask, (cz + CellBias) % CellMask >>

\* the unpacking at the head of the cell loop of find_conjunctions
unpack_cell(key) == << key[1] - CellBias, key[2] - CellBias, key[3] - CellBias >>

\* simd::distance_squared
distance_squared(p, q) ==
    (p[1] - q[1]) * (p[1] - q[1]) + (p[2] - q[2]) * (p[2] - q[2])
        + (p[3] - q[3]) * (p[3] - q[3])

\* offset table with the entry {0,1,0} left out
offsets_missing == << <<1,0,0>>, <<0,0,1>>,
              <<1,1,0>>, <<1,-1,0>>, <<1,0,1>>, <<1,0,-1>>,
              <<0,1,1>>, <<0,1,-1>>,
              <<1,1,1>>, <<1,1,-1>>, <<1,-1,1>>, <<1,-1,-1>> >>

\* offset table with {0,0,1} mistyped as {0,-1,0}, the opposite of {0,1,0}
offsets_doubled == << <<1,0,0>>, <<0,1,0>>, <<0,-1,0>>,
              <<1,1,0>>, <<1,-1,0>>, <<1,0,1>>, <<1,0,-1>>,
              <<0,1,1>>, <<0,1,-1>>,
              <<1,1,1>>, <<1,1,-1>>, <<1,-1,1>>, <<1,-1,-1>> >>

\* the 13 neighbour offsets of find_conjunctions, in source order
offsets == << <<1,0,0>>, <<0,1,0>>, <<0,0,1>>,
              <<1,1,0>>, <<1,-1,0>>, <<1,0,1>>, <<1,0,-1>>,
              <<0,1,1>>, <<0,1,-1>>,
              <<1,1,1>>, <<1,1,-1>>, <<1,-1,1>>, <<1,-1,-1>> >>

KeyOf(i, cs) == pack_cell(pos_to_cell(pos[i][1], cs), pos_to_cell(pos[i][2], cs),
                          pos_to_cell(pos[i][3], cs))

\* indices 0..n-1 as a sequence
IndexSeq == [k \in 1..NumObjects |-> k - 1]

\* SpatialGrid::build: every index appended to the bucket of its cell, in index order
BuiltGrid(cs) ==
    [key \in {KeyOf(i, cs) : i \in Objects} |->
        SelectSeq(IndexSeq, LAMBDA i : KeyOf(i, cs) = key)]

\* cell_keys: the populated keys in the order the map hands them out. The order of
\* an unordered_map is unspecified; the model takes the order of first insertion.
RECURSIVE FirstSeen(_, _)
FirstSeen(is, seen) ==
    IF Len(is) = 0 THEN <<>>
    ELSE LET key == KeyOf(Head(is), cell_size)
         IN IF key \in seen THEN FirstSeen(Tail(is), seen)
            ELSE <<key>> \o FirstSeen(Tail(is), seen \cup {key})
cell_keys == FirstSeen(IndexSeq, {})

\* the (i, j) visited by the same-cell double loop: a < b in bucket order
SameCellPairs(indices) ==
    Flatten([a \in 1..Len(indices) |->
                [b \in 1..(Len(indices) - a) |-> <<indices[a], indices[a + b]>>]])

\* the (i, j) visited for one neighbour bucket
CrossCellPairs(indices, neighbor_indices) ==
    Flatten([a \in 1..Len(indices) |->
                [b \in 1..Len(neighbor_indices) |-> <<indices[a], neighbor_indices[b]>>]])

neighbor_key(key, o) ==
    LET c == unpack_cell(key)
    IN pack_cell(c[1] + offsets[o][1], c[2] + offsets[o][2], c[3] + offsets[o][3])

\* all (i, j) one iteration of the cell loop tests, in source order
CellPairs(key) ==
    SameCellPairs(grid[key]) \o
    Flatten([o \in 1..Len(offsets) |->
                IF neighbor_key(key, o) \in DOMAIN grid
                THEN CrossCellPairs(grid[key], grid[neighbor_key(key, o)])
                ELSE <<>>])

\* the test in front of both push_back calls: dist_sq < threshold_sq
WithinThresholdSq(p) == distance_squared(pos[p[1]], pos[p[2]]) < threshold * threshold

\* the Conjunction pushed for (i, j); i and j are ghost fields naming the objects
\* the distance was measured on, distance is kept squared
MakeConjunction(p) ==
    [ sat1_id |-> catalog[p[1]], sat2_id |-> catalog[p[2]],
      distance_sq |-> distance_squared(pos[p[1]], pos[p[2]]),
      time_minutes |-> TimeMinutes, i |-> p[1], j |-> p[2] ]

\* what one iteration of the cell loop appends to local_conj
CellConjunctions(key) ==
    LET hits == SelectSeq(CellPairs(key), WithinThresholdSq)
    IN [k \in 1..Len(hits) |-> MakeConjunction(hits[k])]

\* per cell of cell_keys, what its iteration appends
LocalConjunctions == [k \in 1..Len(cell_keys) |-> CellConjunctions(cell_keys[k])]

\* local_conj of thread w when cell k of cell_keys is handed to thread assign[k];
\* local[k] is what the iteration of cell k appends
ThreadConjunctions(local, assign, w) ==
    Flatten([k \in 1..Len(local) |-> IF assign[k] = w THEN local[k] ELSE <<>>])

\* the merge of the thread-local vectors after the parallel region
MergedConjunctions(local, assign) ==
    Flatten([k \in 1..Len(ThreadOrder) |-> ThreadConjunctions(local, assign, ThreadOrder[k])])

\* Vec3::magnitude() < threshold_km of detect_collisions_naive, on squared distance
NaiveWithin(d2, t) == t > 0 /\ d2 < t * t

\* detect_collisions_naive on the same positions
detect_collisions_naive ==
    LET all == Flatten([a \in 1..NumObjects |->
                   [b \in 1..(NumObjects - a) |-> <<a - 1, a + b - 1>>]])
        hits == SelectSeq(all, LAMBDA p :
                   NaiveWithin(distance_squared(pos[p[1]], pos[p[2]]), threshold))
    IN [k \in 1..Len(hits) |-> MakeConjunction(hits[k])]

\* the cell size detect_collisions_optimized constructs the grid with
OptimizedCellSize(t) == Max(t, DefaultCellKm)

GridInit ==
    /\ gpc = "start"
    /\ pos \in [Objects -> Points]
    /\ catalog \in CatalogChoices
    /\ threshold \in Thresholds
    /\ cell_size = OptimizedCellSize(threshold)
    /\ grid = <<>>
    /\ conjunctions = <<>>
    /\ prob_results = <<>>
    /\ probe = <<>>

\* grid.build(sys)
Build ==
    /\ gpc = "start"
    /\ grid' = BuiltGrid(cell_size)
    /\ gpc' = "built"
    /\ UNCHANGED <<pos, catalog, threshold, cell_size, conjunctions, prob_results, probe>>
    /\ UNCHANGED <<histVars, srvVars, restVars>>

\* grid.find_conjunctions(sys, threshold, time): the parallel cell loop under any
\* assignment of cells to worker threads, then the merge
FindConjunctions ==
    /\ gpc = "built"
    /\ \E local \in {LocalConjunctions} :
          \E assign \in [1..Len(local) -> Threads] :
             conjunctions' = MergedConjunctions(local, assign)
    /\ gpc' = "found"
    /\ UNCHANGED <<pos, catalog, threshold, cell_size, grid, prob_results, probe>>
    /\ UNCHANGED <<histVars, srvVars, restVars>>

\* calculate_relative_velocity, kept squared
calculate_relative_velocity_sq(v1, v2) == distance_squared(v1, v2)

\* the nominal part of CollisionProbabilityCalculator::calculate
calculate(i1, i2, conj) ==
    [ sat1_id |-> conj.sat1_id, sat2_id |-> conj.sat2_id, tca |-> conj.time_minutes,
      miss_distance_sq |-> distance_squared(pos[i1], pos[i2]),
      relative_velocity_sq |-> calculate_relative_velocity_sq(vel[i1], vel[i2]) ]

\* the loop body of calculate_all for one conjunction: the ids are used as store
\* indices, and a conjunction with an id at or beyond sys.count is skipped
CalculateOne(conj) ==
    LET i1 == conj.sat1_id
        i2 == conj.sat2_id
    IN IF i1 < 0 \/ i2 < 0 \/ i1 >= NumObjects \/ i2 >= NumObjects
       THEN <<>>
       ELSE << calculate(i1, i2, conj) >>

\* probability_calculator_->calculate_all(system_, conjunctions, tles_)
CalculateAll ==
    /\ gpc = "found"
    /\ prob_results' = Flatten([k \in 1..Len(conjunctions) |-> CalculateOne(conjunctions[k])])
    /\ gpc' = "done"
    /\ UNCHANGED <<pos, catalog, threshold, cell_size, grid, conjunctions, probe>>
    /\ UNCHANGED <<histVars, srvVars, restVars>>

GridIdle ==
    /\ gpc = "off" /\ pos = <<>> /\ catalog = <<>> /\ threshold = 0 /\ cell_size = 0
    /\ grid = <<>> /\ conjunctions = <<>> /\ prob_results = <<>> /\ probe = <<>>

HistIdle ==
    /\ recording = FALSE /\ config = <<>> /\ snapshots = <<>> /\ events = <<>>
    /\ mutex = 0 /\ hpc = <<>> /\ harg = <<>> /\ file = <<>> /\ gate = "new"
    /\ recorded = <<>> /\ exported = <<>> /\ after_import = FALSE

SrvIdle ==
    /\ spc = <<>> /\ system_mutex = 0 /\ store_time = 0 /\ tles_count = 0
    /\ debris_count = 0 /\ loop_t = <<>> /\ steps_left = <<>> /\ sarg = <<>>
    /\ cancelled = <<>>

GridNext == Build \/ FindConjunctions \/ CalculateAll

InitGrid == GridInit /\ HistIdle /\ SrvIdle /\ RestIdle

SpecGrid == InitGrid /\ [][GridNext]_vars

\* ---- the hash at the edge of its 21-bit fields ----
\* positions whose cell index, at the default cell size, is -2^20 - 1, -2^20,
\* 2^20 - 1 and 2^20 on the x axis, 0 and 2^20 on the y axis
FarX == {-(CellBias * DefaultCellKm) - 1, -(CellBias * DefaultCellKm),
         CellBias * DefaultCellKm - 1, CellBias * DefaultCellKm}
FarY == {0, CellBias * DefaultCellKm}
FarPoints == FarX \X FarY \X {0}

FarInit ==
    /\ gpc = "start"
    /\ pos \in [Objects -> FarPoints]
    /\ catalog = [i \in Objects |-> 1000 + i]
    /\ threshold = 40
    /\ cell_size = OptimizedCellSize(threshold)
    /\ grid = <<>>
    /\ conjunctions = <<>>
    /\ prob_results = <<>>
    /\ probe = <<>>

\* one pass of the neighbour loop of find_conjunctions for one cell, up to the
\* lookup: the cell is unpacked, the neighbour key packed and searched
NeighborLookup(k, o) ==
    /\ gpc = "built"
    /\ k \in 1..Len(cell_keys)
    /\ LET cell_key == cell_keys[k]
           key == neighbor_key(cell_key, o)
       IN  probe' = [cell_key |-> cell_key, offset |-> o, neighbor_key |-> key,
                     found |-> key \in DOMAIN grid]
    /\ UNCHANGED <<gpc, pos, catalog, threshold, cell_size, grid, conjunctions, prob_results>>
    /\ UNCHANGED <<histVars, srvVars, restVars>>

InitHash == FarInit /\ HistIdle /\ SrvIdle /\ RestIdle
HashNext == Build \/ \E k \in 1..NumObjects, o \in 1..Len(offsets) : NeighborLookup(k, o)
SpecHash == InitHash /\ [][HashNext]_vars

(***************************************************************************)
(* HistoryRecorder.                                                        *)
(*                                                                         *)
(* Every public operation is a sequence of steps of the calling thread:    *)
(* the call, an unlocked read where the source has one, the acquisition of *)
(* mutex_, and the body, which runs under the lock_guard and releases the  *)
(* mutex when it returns.                                                  *)
(***************************************************************************)
MaxRecorded == 3                 \* the ghost log keeps the last MaxRecorded appends
Caps        == {1, 2}            \* values of max_snapshots and max_conjunction_events
WallTimes   == {1, 2}            \* values of std::chrono::system_clock::now()
SnapTimes   == {0, 1}            \* time_minutes passed to record_snapshot

FloatExact == 16777216           \* 2^24: every integer up to it is a float32

Abs(x) == IF x < 0 THEN -x ELSE x

\* static_cast<float>(double) on whole numbers below 2^25: 24 significant bits,
\* round to nearest, ties to even
ToFloat(x) ==
    IF Abs(x) <= FloatExact THEN x
    ELSE IF x % 2 = 0 THEN x
    ELSE IF (x + 1) % 4 = 0 THEN x + 1 ELSE x - 1

\* the store handed to record_snapshot: two objects whose x column depends on time
HistCount == 2
SysColumn(time) ==
    [ x |-> <<16777217 + time, 7000>>, y |-> <<-6800, 12>>, z |-> <<0, 16777219>> ]
\* tles handed to record_snapshot: shorter than the store
TleCatalog == <<25544>>

\* the PositionSnapshot record_snapshot builds
MakeSnapshot(time, now) ==
    [ time_minutes  |-> time,
      wall_time     |-> now,
      positions_x   |-> [i \in 1..HistCount |-> ToFloat(SysColumn(time).x[i])],
      positions_y   |-> [i \in 1..HistCount |-> ToFloat(SysColumn(time).y[i])],
      positions_z   |-> [i \in 1..HistCount |-> ToFloat(SysColumn(time).z[i])],
      satellite_ids |-> [i \in 1..HistCount |->
                            IF i <= Len(TleCatalog) THEN TleCatalog[i] ELSE i - 1] ]

\* ConjunctionEvent values handed to record_conjunction
EventInputs ==
    { [ time_minutes |-> tm, wall_time |-> 1, sat1_id |-> 25544, sat2_id |-> 1000 + tm,
        sat1_name |-> "ISS", sat2_name |-> "DEB", miss_distance |-> 3 + tm,
        relative_velocity |-> 11, collision_probability |-> 0 ] : tm \in {0, 1} }

\* RecorderConfig values
Configs(caps, ecaps, flags) ==
    [ max_snapshots : caps, max_conjunction_events : ecaps, record_conjunctions : flags ]

\* the ghost log after one more append: the last MaxRecorded appended snapshots
Logged(log, snapshot) ==
    IF Len(log) < MaxRecorded THEN Append(log, snapshot)
    ELSE Append(Tail(log), snapshot)

\* pop_back in place of pop_front
trim_newest(q, cap) == IF Len(q) > cap THEN SubSeq(q, 1, cap) ELSE q

\* one while loop of trim_old_data: pop_front until the deque fits the cap
trim(q, cap) == IF Len(q) > cap THEN SubSeq(q, Len(q) - cap + 1, Len(q)) ELSE q

\* export_to_file: what is written per snapshot and per event
FileSnapshot(sn) ==
    [ time_minutes |-> sn.time_minutes, sat_count |-> Len(sn.satellite_ids),
      positions_x |-> sn.positions_x, positions_y |-> sn.positions_y,
      positions_z |-> sn.positions_z, satellite_ids |-> sn.satellite_ids ]
FileEvent(ev) ==
    << ev.time_minutes, ev.sat1_id, ev.sat2_id, ev.miss_distance,
       ev.relative_velocity, ev.collision_probability >>
FileMagic == 1330790985          \* 0x4F524249
FileVersion == 1
ExportedFile(snaps, evs) ==
    [ magic |-> FileMagic, version |-> FileVersion,
      snapshots |-> [k \in 1..Len(snaps) |-> FileSnapshot(snaps[k])],
      events    |-> [k \in 1..Len(evs) |-> FileEvent(evs[k])] ]

\* import_from_file: the snapshot and the event built from what is read
ReadSnapshot(fs, now) ==
    [ time_minutes  |-> fs.time_minutes,
      wall_time     |-> now,
      positions_x   |-> SubSeq(fs.positions_x, 1, fs.sat_count),
      positions_y   |-> SubSeq(fs.positions_y, 1, fs.sat_count),
      positions_z   |-> SubSeq(fs.positions_z, 1, fs.sat_count),
      satellite_ids |-> SubSeq(fs.satellite_ids, 1, fs.sat_count) ]
ReadEvent(fe, now) ==
    [ time_minutes |-> fe[1], wall_time |-> now, sat1_id |-> fe[2], sat2_id |-> fe[3],
      sat1_name |-> "", sat2_name |-> "", miss_distance |-> fe[4],
      relative_velocity |-> fe[5], collision_probability |-> fe[6] ]

\* the step of thread t from pc a to pc b
Go(t, a, b) == hpc[t] = a /\ hpc' = [hpc EXCEPT ![t] = b]

\* std::lock_guard<std::mutex> lock(mutex_): blocks until the mutex is free
Acquire(t) ==
    /\ mutex = 0
    /\ \E op \in {"start", "stop", "clear", "rs", "rc", "sc", "ex", "im", "get"} :
          Go(t, op \o "_lock", op \o "_body")
    /\ mutex' = t
    /\ UNCHANGED <<recording, config, snapshots, events, harg, file, gate, recorded,
                   exported, after_import>>
    /\ UNCHANGED <<gridVars, srvVars, restVars>>

\* the end of a body: the lock_guard releases the mutex and the call returns
Return(t, body) ==
    /\ hpc[t] = body
    /\ hpc' = [hpc EXCEPT ![t] = "idle"]
    /\ harg' = [harg EXCEPT ![t] = 0]
    /\ mutex = t
    /\ mutex' = 0

\* a value read from recording_ outside the mutex: a write racing with the read may
\* or may not be seen
RacyRecording ==
    {recording} \cup {TRUE : u \in {u \in DOMAIN hpc : hpc[u] = "start_body"}}
                \cup {FALSE : u \in {u \in DOMAIN hpc : hpc[u] = "stop_body"}}

\* ---- start ----
StartCall(t) ==
    /\ Go(t, "idle", "start_lock")
    /\ gate' = "started"
    /\ UNCHANGED <<recording, config, snapshots, events, mutex, harg, file, recorded,
                   exported, after_import>>
    /\ UNCHANGED <<gridVars, srvVars, restVars>>
StartBody(t) ==
    /\ Return(t, "start_body")
    /\ recording' = TRUE
    /\ UNCHANGED <<config, snapshots, events, file, gate, recorded, exported,
                   after_import>>
    /\ UNCHANGED <<gridVars, srvVars, restVars>>

\* ---- stop ----
StopCall(t) ==
    /\ Go(t, "idle", "stop_lock")
    /\ UNCHANGED <<recording, config, snapshots, events, mutex, harg, file, gate,
                   recorded, exported, after_import>>
    /\ UNCHANGED <<gridVars, srvVars, restVars>>
StopBody(t) ==
    /\ Return(t, "stop_body")
    /\ recording' = FALSE
    /\ gate' = IF \E u \in DOMAIN hpc : hpc[u] \in {"start_lock", "start_body"}
               THEN gate ELSE "stopped"
    /\ UNCHANGED <<config, snapshots, events, file, recorded, exported,
                   after_import>>
    /\ UNCHANGED <<gridVars, srvVars, restVars>>

\* ---- clear ----
ClearCall(t) ==
    /\ Go(t, "idle", "clear_lock")
    /\ UNCHANGED <<recording, config, snapshots, events, mutex, harg, file, gate,
                   recorded, exported, after_import>>
    /\ UNCHANGED <<gridVars, srvVars, restVars>>
ClearBody(t) ==
    /\ Return(t, "clear_body")
    /\ snapshots' = <<>>
    /\ events' = <<>>
    /\ recorded' = <<>>
    /\ after_import' = FALSE
    /\ UNCHANGED <<recording, config, file, gate, exported>>
    /\ UNCHANGED <<gridVars, srvVars, restVars>>

\* ---- record_snapshot ----
RecordSnapshotCall(t, time) ==
    /\ Go(t, "idle", "rs_check")
    /\ harg' = [harg EXCEPT ![t] = time]
    /\ UNCHANGED <<recording, config, snapshots, events, mutex, file, gate, recorded,
                   exported, after_import>>
    /\ UNCHANGED <<gridVars, srvVars, restVars>>
\* if (!recording_) return;   -- read before the mutex is taken
RecordSnapshotCheck(t) ==
    /\ \E r \in RacyRecording :
          IF r THEN Go(t, "rs_check", "rs_lock") ELSE Go(t, "rs_check", "idle")
    /\ UNCHANGED <<recording, config, snapshots, events, mutex, harg, file, gate,
                   recorded, exported, after_import>>
    /\ UNCHANGED <<gridVars, srvVars, restVars>>
RecordSnapshotBody(t, now) ==
    /\ Return(t, "rs_body")
    /\ LET snapshot == MakeSnapshot(harg[t], now)
       IN /\ snapshots' = trim(Append(snapshots, snapshot), config.max_snapshots)
          /\ recorded' = Logged(recorded, snapshot)
    /\ events' = trim(events, config.max_conjunction_events)
    /\ after_import' = FALSE
    /\ UNCHANGED <<recording, config, file, gate, exported>>
    /\ UNCHANGED <<gridVars, srvVars, restVars>>

\* ---- record_conjunction ----
RecordConjunctionCall(t, event) ==
    /\ Go(t, "idle", "rc_check")
    /\ harg' = [harg EXCEPT ![t] = event]
    /\ UNCHANGED <<recording, config, snapshots, events, mutex, file, gate, recorded,
                   exported, after_import>>
    /\ UNCHANGED <<gridVars, srvVars, restVars>>
\* if (!recording_ || !config_.record_conjunctions) return;   -- before the mutex
RecordConjunctionCheck(t) ==
    /\ \E r \in RacyRecording :
          IF r /\ config.record_conjunctions
          THEN Go(t, "rc_check", "rc_lock") ELSE Go(t, "rc_check", "idle")
    /\ UNCHANGED <<recording, config, snapshots, events, mutex, harg, file, gate,
                   recorded, exported, after_import>>
    /\ UNCHANGED <<gridVars, srvVars, restVars>>
RecordConjunctionBody(t) ==
    /\ Return(t, "rc_body")
    /\ events' = trim(Append(events, harg[t]), config.max_conjunction_events)
    /\ snapshots' = trim(snapshots, config.max_snapshots)
    /\ after_import' = FALSE
    /\ UNCHANGED <<recording, config, file, gate, recorded, exported>>
    /\ UNCHANGED <<gridVars, srvVars, restVars>>

\* ---- set_config ----
SetConfigCall(t, cfg) ==
    /\ Go(t, "idle", "sc_lock")
    /\ harg' = [harg EXCEPT ![t] = cfg]
    /\ UNCHANGED <<recording, config, snapshots, events, mutex, file, gate, recorded,
                   exported, after_import>>
    /\ UNCHANGED <<gridVars, srvVars, restVars>>
SetConfigBody(t) ==
    /\ Return(t, "sc_body")
    /\ config' = harg[t]
    /\ snapshots' = trim(snapshots, harg[t].max_snapshots)
    /\ events' = trim(events, harg[t].max_conjunction_events)
    /\ recorded' = <<>>
    /\ after_import' = FALSE
    /\ UNCHANGED <<recording, file, gate, exported>>
    /\ UNCHANGED <<gridVars, srvVars, restVars>>

\* ---- export_to_file ----
ExportCall(t) ==
    /\ Go(t, "idle", "ex_lock")
    /\ UNCHANGED <<recording, config, snapshots, events, mutex, harg, file, gate,
                   recorded, exported, after_import>>
    /\ UNCHANGED <<gridVars, srvVars, restVars>>
ExportBody(t) ==
    /\ Return(t, "ex_body")
    /\ file' = ExportedFile(snapshots, events)
    /\ exported' = [snapshots |-> snapshots, events |-> events]
    /\ after_import' = FALSE
    /\ UNCHANGED <<recording, config, snapshots, events, gate, recorded>>
    /\ UNCHANGED <<gridVars, srvVars, restVars>>

\* ---- import_from_file ----
ImportCall(t) ==
    /\ Go(t, "idle", "im_lock")
    /\ UNCHANGED <<recording, config, snapshots, events, mutex, harg, file, gate,
                   recorded, exported, after_import>>
    /\ UNCHANGED <<gridVars, srvVars, restVars>>
ImportBody(t, now) ==
    /\ Return(t, "im_body")
    /\ IF file = <<>> \/ file.magic # FileMagic \/ file.version # FileVersion
       THEN UNCHANGED <<snapshots, events, recorded, after_import>>
       ELSE /\ snapshots' = [k \in 1..Len(file.snapshots) |->
                                ReadSnapshot(file.snapshots[k], now)]
            /\ events' = [k \in 1..Len(file.events) |-> ReadEvent(file.events[k], now)]
            /\ recorded' = <<>>
            /\ after_import' = TRUE
    /\ UNCHANGED <<recording, config, file, gate, exported>>
    /\ UNCHANGED <<gridVars, srvVars, restVars>>

\* ---- the const queries (get_snapshot_at, get_snapshot_nearest, get_snapshots_range,
\*      get_conjunctions_range, get_conjunctions_for_satellite, get_time_range,
\*      get_stats): a read of the deques under the lock_guard ----
QueryCall(t) ==
    /\ Go(t, "idle", "get_lock")
    /\ UNCHANGED <<recording, config, snapshots, events, mutex, harg, file, gate,
                   recorded, exported, after_import>>
    /\ UNCHANGED <<gridVars, srvVars, restVars>>
QueryBody(t) ==
    /\ Return(t, "get_body")
    /\ UNCHANGED <<recording, config, snapshots, events, file, gate, recorded,
                   exported, after_import>>
    /\ UNCHANGED <<gridVars, srvVars, restVars>>

\* ---- is_recording() and get_config(): inline, no lock_guard ----
IsRecordingCall(t) ==
    /\ Go(t, "idle", "ir_read")
    /\ UNCHANGED <<recording, config, snapshots, events, mutex, harg, file, gate,
                   recorded, exported, after_import>>
    /\ UNCHANGED <<gridVars, srvVars, restVars>>
IsRecordingRead(t) ==
    /\ Go(t, "ir_read", "idle")
    /\ UNCHANGED <<recording, config, snapshots, events, mutex, harg, file, gate, recorded,
                   exported, after_import>>
    /\ UNCHANGED <<gridVars, srvVars, restVars>>
GetConfigCall(t) ==
    /\ Go(t, "idle", "gc_read")
    /\ UNCHANGED <<recording, config, snapshots, events, mutex, harg, file, gate,
                   recorded, exported, after_import>>
    /\ UNCHANGED <<gridVars, srvVars, restVars>>
GetConfigRead(t) ==
    /\ Go(t, "gc_read", "idle")
    /\ UNCHANGED <<recording, config, snapshots, events, mutex, harg, file, gate, recorded,
                   exported, after_import>>
    /\ UNCHANGED <<gridVars, srvVars, restVars>>

\* the recorder after construction with one of the configurations cfgs, and the
\* threads T that call it
HistInit(T, cfgs) ==
    /\ recording = FALSE
    /\ config \in cfgs
    /\ snapshots = <<>> /\ events = <<>>
    /\ mutex = 0
    /\ hpc = [t \in T |-> "idle"]
    /\ harg = [t \in T |-> 0]
    /\ file = <<>>
    /\ gate = "new"
    /\ recorded = <<>> /\ exported = <<>> /\ after_import = FALSE

\* ---- one caller recording snapshots and changing the cap ----
Caller == 1
FifoConfigs == Configs(Caps, {1}, {TRUE})
InitHistFifo == HistInit({Caller}, FifoConfigs) /\ GridIdle /\ SrvIdle /\ RestIdle
HistFifoNext ==
    \/ Acquire(Caller)
    \/ StartCall(Caller) \/ StartBody(Caller)
    \/ StopCall(Caller) \/ StopBody(Caller)
    \/ ClearCall(Caller) \/ ClearBody(Caller)
    \/ \E time \in SnapTimes : RecordSnapshotCall(Caller, time)
    \/ RecordSnapshotCheck(Caller)
    \/ \E now \in {1} : RecordSnapshotBody(Caller, now)
    \/ \E cfg \in FifoConfigs : SetConfigCall(Caller, cfg)
    \/ SetConfigBody(Caller)
SpecHistFifo == InitHistFifo /\ [][HistFifoNext]_vars

\* ---- one caller recording, exporting to a file and importing it ----
InitHistFile == HistInit({Caller}, FifoConfigs) /\ GridIdle /\ SrvIdle /\ RestIdle
HistFileNext ==
    \/ Acquire(Caller)
    \/ StartCall(Caller) \/ StartBody(Caller)
    \/ \E time \in SnapTimes : RecordSnapshotCall(Caller, time)
    \/ RecordSnapshotCheck(Caller)
    \/ \E now \in {1} : RecordSnapshotBody(Caller, now)
    \/ \E event \in EventInputs : RecordConjunctionCall(Caller, event)
    \/ RecordConjunctionCheck(Caller) \/ RecordConjunctionBody(Caller)
    \/ ExportCall(Caller) \/ ExportBody(Caller)
    \/ ImportCall(Caller)
    \/ \E now \in WallTimes : ImportBody(Caller, now)
SpecHistFile == InitHistFile /\ [][HistFileNext]_vars

\* ---- one caller changing both caps, recording, exporting and importing ----
CapConfigs == Configs(Caps, Caps, {TRUE})
InitHistCaps == HistInit({Caller}, CapConfigs) /\ GridIdle /\ SrvIdle /\ RestIdle
HistCapsNext ==
    \/ Acquire(Caller)
    \/ StartCall(Caller) \/ StartBody(Caller)
    \/ ClearCall(Caller) \/ ClearBody(Caller)
    \/ \E time \in {0} : RecordSnapshotCall(Caller, time)
    \/ RecordSnapshotCheck(Caller)
    \/ \E now \in {1} : RecordSnapshotBody(Caller, now)
    \/ \E event \in {e \in EventInputs : e.time_minutes = 0} :
          RecordConjunctionCall(Caller, event)
    \/ RecordConjunctionCheck(Caller) \/ RecordConjunctionBody(Caller)
    \/ \E cfg \in CapConfigs : SetConfigCall(Caller, cfg)
    \/ SetConfigBody(Caller)
    \/ ExportCall(Caller) \/ ExportBody(Caller)
    \/ ImportCall(Caller)
    \/ \E now \in {1} : ImportBody(Caller, now)
SpecHistCaps == InitHistCaps /\ [][HistCapsNext]_vars

\* ---- two threads calling every public operation of one recorder ----
HistThreads == {1, 2}
RaceConfigs == Configs({1}, {1}, {TRUE})
InitHist == HistInit(HistThreads, RaceConfigs) /\ GridIdle /\ SrvIdle /\ RestIdle
HistNext ==
    \E t \in HistThreads :
        \/ Acquire(t)
        \/ StartCall(t) \/ StartBody(t)
        \/ StopCall(t) \/ StopBody(t)
        \/ ClearCall(t) \/ ClearBody(t)
        \/ \E time \in {0} : RecordSnapshotCall(t, time)
        \/ RecordSnapshotCheck(t)
        \/ \E now \in {1} : RecordSnapshotBody(t, now)
        \/ \E event \in {e \in EventInputs : e.time_minutes = 0} :
              RecordConjunctionCall(t, event)
        \/ RecordConjunctionCheck(t) \/ RecordConjunctionBody(t)
        \/ \E cfg \in RaceConfigs : SetConfigCall(t, cfg)
        \/ SetConfigBody(t)
        \/ ExportCall(t) \/ ExportBody(t)
        \/ ImportCall(t)
        \/ \E now \in {1} : ImportBody(t, now)
        \/ QueryCall(t) \/ QueryBody(t)
        \/ IsRecordingCall(t) \/ IsRecordingRead(t)
        \/ GetConfigCall(t) \/ GetConfigRead(t)
SpecHist == InitHist /\ [][HistNext]_vars

(***************************************************************************)
(* OrbitOpsServiceImpl: the RPC handlers on the shared store system_.      *)
(*                                                                         *)
(* A handler is a sequence of steps of its thread: the call, the           *)
(* acquisition of system_mutex_, and the steps it runs on the store.  The  *)
(* store's position and velocity columns are a function of the time it was *)
(* last propagated to, so the store is modelled by that time.              *)
(***************************************************************************)
MaxSteps   == 2                  \* iterations of a handler's time loop
MaxTles    == 3                  \* tles_.size() after merges
Handlers   == {1, 2}
StartTimes == {0}                \* request start_time, in steps
StoreCount == HistCount          \* system_.count
NumSources == 4                  \* sources added to tle_updater_
Fresh      == -1                 \* store_time of a store that was never propagated

\* the recorder the constructor leaves behind: history_recorder_->start() was called
HistStarted ==
    /\ recording = TRUE
    /\ config \in RaceConfigs
    /\ snapshots = <<>> /\ events = <<>>
    /\ mutex = 0 /\ hpc = <<>> /\ harg = <<>> /\ file = <<>>
    /\ gate = "started"
    /\ recorded = <<>> /\ exported = <<>> /\ after_import = FALSE

\* the service after construction: system_ = create_satellite_system(tles_), no propagate
SrvInit ==
    /\ spc = [h \in Handlers |-> "idle"]
    /\ system_mutex = 0
    /\ store_time = Fresh
    /\ tles_count = StoreCount
    /\ debris_count = 1
    /\ loop_t = [h \in Handlers |-> 0]
    /\ steps_left = [h \in Handlers |-> 0]
    /\ sarg = [h \in Handlers |-> <<>>]
    /\ cancelled = [h \in Handlers |-> FALSE]

\* the ConjunctionEvent StreamConjunctions builds from a probability result
StreamEvent(time, now) ==
    [ time_minutes |-> time, wall_time |-> now, sat1_id |-> 25544, sat2_id |-> 1000,
      sat1_name |-> "ISS", sat2_name |-> "DEB", miss_distance |-> 3,
      relative_velocity |-> 11, collision_probability |-> 0 ]

ValidId(id) == id >= 0 /\ id < tles_count

\* the handler returns: its locals go out of scope
Done(h) ==
    /\ spc' = [spc EXCEPT ![h] = "idle"]
    /\ loop_t' = [loop_t EXCEPT ![h] = 0]
    /\ steps_left' = [steps_left EXCEPT ![h] = 0]
    /\ sarg' = [sarg EXCEPT ![h] = <<>>]
    /\ cancelled' = [cancelled EXCEPT ![h] = FALSE]

\* the handler returns and its lock_guard releases system_mutex_
Exit(h) == Done(h) /\ system_mutex' = 0

\* the loop variable advances: t += step
Advance(h) ==
    /\ loop_t' = [loop_t EXCEPT ![h] = loop_t[h] + 1]
    /\ steps_left' = [steps_left EXCEPT ![h] = steps_left[h] - 1]

\* a lock_guard that does not wait for the mutex to be free
SrvAcquireNoWait(h) ==
    /\ \E op \in {"sp", "sc", "gp1", "gp", "om", "ut", "gd"} :
          /\ spc[h] = op \o "_lock"
          /\ spc' = [spc EXCEPT ![h] = op \o "_run"]
    /\ system_mutex' = h
    /\ UNCHANGED <<store_time, tles_count, debris_count, loop_t, steps_left, sarg, cancelled>>
    /\ UNCHANGED <<gridVars, histVars, restVars>>

\* std::lock_guard<std::mutex> lock(system_mutex_)
SrvAcquire(h) ==
    /\ system_mutex = 0
    /\ \E op \in {"sp", "sc", "gp1", "gp", "om", "ut", "gd"} :
          /\ spc[h] = op \o "_lock"
          /\ spc' = [spc EXCEPT ![h] = op \o "_run"]
    /\ system_mutex' = h
    /\ UNCHANGED <<store_time, tles_count, debris_count, loop_t, steps_left, sarg, cancelled>>
    /\ UNCHANGED <<gridVars, histVars, restVars>>

\* the client cancels a streaming call
Cancel(h) ==
    /\ spc[h] \in {"sp_lock", "sp_run", "sc_lock", "sc_run"}
    /\ ~cancelled[h]
    /\ cancelled' = [cancelled EXCEPT ![h] = TRUE]
    /\ UNCHANGED <<spc, system_mutex, store_time, tles_count, debris_count, loop_t,
                   steps_left, sarg>>
    /\ UNCHANGED <<gridVars, histVars, restVars>>

\* ---- StreamPositions ----
StreamPositionsCall(h, start, count) ==
    /\ spc[h] = "idle"
    /\ spc' = [spc EXCEPT ![h] = "sp_lock"]
    /\ loop_t' = [loop_t EXCEPT ![h] = start]
    /\ steps_left' = [steps_left EXCEPT ![h] = count]
    /\ UNCHANGED <<system_mutex, store_time, tles_count, debris_count, sarg, cancelled>>
    /\ UNCHANGED <<gridVars, histVars, restVars>>
\* a loop that tests only  t <= end
StreamPositionsStepUnpolled(h, written) ==
    /\ spc[h] = "sp_run"
    /\ IF steps_left[h] > 0
       THEN /\ store_time' = loop_t[h]
            /\ IF written
               THEN Advance(h) /\ UNCHANGED <<spc, system_mutex, sarg, cancelled>>
               ELSE Exit(h)
       ELSE Exit(h) /\ UNCHANGED store_time
    /\ UNCHANGED <<tles_count, debris_count>>
    /\ UNCHANGED <<gridVars, histVars, restVars>>
\* one pass of  for (t = start; t <= end && !IsCancelled(); t += step)
StreamPositionsStep(h, written) ==
    /\ spc[h] = "sp_run"
    /\ IF steps_left[h] > 0 /\ ~cancelled[h]
       THEN /\ store_time' = loop_t[h]
            /\ IF written
               THEN Advance(h) /\ UNCHANGED <<spc, system_mutex, sarg, cancelled>>
               ELSE Exit(h)
       ELSE Exit(h) /\ UNCHANGED store_time
    /\ UNCHANGED <<tles_count, debris_count>>
    /\ UNCHANGED <<gridVars, histVars, restVars>>

\* ---- StreamConjunctions ----
StreamConjunctionsCall(h, start, count) ==
    /\ spc[h] = "idle"
    /\ spc' = [spc EXCEPT ![h] = "sc_lock"]
    /\ loop_t' = [loop_t EXCEPT ![h] = start]
    /\ steps_left' = [steps_left EXCEPT ![h] = count]
    /\ UNCHANGED <<system_mutex, store_time, tles_count, debris_count, sarg, cancelled>>
    /\ UNCHANGED <<gridVars, histVars, restVars>>
\* one pass of the loop: propagate, record_snapshot, build, find_conjunctions and, when
\* a conjunction was found, calculate_all, record_conjunction and Write
StreamConjunctionsStep(h, found, written, now) ==
    /\ spc[h] = "sc_run"
    /\ IF steps_left[h] > 0 /\ ~cancelled[h]
       THEN LET snapshot == MakeSnapshot(loop_t[h], now)
                kept == IF recording
                        THEN trim(Append(snapshots, snapshot), config.max_snapshots)
                        ELSE snapshots
                trimmed == IF recording
                           THEN trim(events, config.max_conjunction_events)
                           ELSE events
            IN /\ store_time' = loop_t[h]
               /\ snapshots' = kept
               /\ events' = IF found /\ recording /\ config.record_conjunctions
                            THEN trim(Append(trimmed, StreamEvent(loop_t[h], now)),
                                      config.max_conjunction_events)
                            ELSE trimmed
               /\ after_import' = IF recording THEN FALSE ELSE after_import
               /\ IF found /\ ~written
                  THEN Exit(h)
                  ELSE Advance(h) /\ UNCHANGED <<spc, system_mutex, sarg, cancelled>>
       ELSE Exit(h) /\ UNCHANGED <<store_time, snapshots, events, after_import>>
    /\ UNCHANGED <<tles_count, debris_count>>
    /\ UNCHANGED <<recording, config, mutex, hpc, harg, file, gate, recorded, exported>>
    /\ UNCHANGED <<gridVars, restVars>>

\* ---- GetOrbitPath ----
GetOrbitPathCall(h, sat_id, start, count) ==
    /\ spc[h] = "idle"
    /\ IF ~ValidId(sat_id)
       THEN UNCHANGED <<spc, loop_t, steps_left, sarg>>
       ELSE /\ spc' = [spc EXCEPT ![h] = IF count = 0 THEN "gp1_lock" ELSE "gp_lock"]
            /\ loop_t' = [loop_t EXCEPT ![h] = start]
            /\ steps_left' = [steps_left EXCEPT ![h] = count]
            /\ sarg' = [sarg EXCEPT ![h] = <<sat_id>>]
    /\ UNCHANGED <<system_mutex, store_time, tles_count, debris_count, cancelled>>
    /\ UNCHANGED <<gridVars, histVars, restVars>>
\* if (end <= start): propagate to start under a scoped lock_guard and take one orbital
\* period, computed from the position columns, as the length of the path
GetOrbitPathPeriod(h, period) ==
    /\ spc[h] = "gp1_run"
    /\ store_time' = loop_t[h]
    /\ steps_left' = [steps_left EXCEPT ![h] = period]
    /\ system_mutex' = 0
    /\ spc' = [spc EXCEPT ![h] = "gp_lock"]
    /\ UNCHANGED <<tles_count, debris_count, loop_t, sarg, cancelled>>
    /\ UNCHANGED <<gridVars, histVars, restVars>>
\* one pass of  for (t = start; t <= end; t += step)
GetOrbitPathStep(h) ==
    /\ spc[h] = "gp_run"
    /\ IF steps_left[h] > 0
       THEN /\ store_time' = loop_t[h]
            /\ Advance(h)
            /\ UNCHANGED <<spc, system_mutex, sarg, cancelled>>
       ELSE Exit(h) /\ UNCHANGED store_time
    /\ UNCHANGED <<tles_count, debris_count>>
    /\ UNCHANGED <<gridVars, histVars, restVars>>

\* ---- OptimizeManeuver ----
OptimizeManeuverCall(h, sat_id, threat_id) ==
    /\ spc[h] = "idle"
    /\ IF ~ValidId(sat_id) \/ ~ValidId(threat_id)
       THEN UNCHANGED <<spc, sarg>>
       ELSE /\ spc' = [spc EXCEPT ![h] = "om_lock"]
            /\ sarg' = [sarg EXCEPT ![h] = <<sat_id, threat_id>>]
    /\ UNCHANGED <<system_mutex, store_time, tles_count, debris_count, loop_t, steps_left,
                   cancelled>>
    /\ UNCHANGED <<gridVars, histVars, restVars>>
\* reads system_.x/y/z/vx/vy/vz of both objects and calls calculate_avoidance
OptimizeManeuverRun(h) ==
    /\ spc[h] = "om_run"
    /\ Exit(h)
    /\ UNCHANGED <<store_time, tles_count, debris_count>>
    /\ UNCHANGED <<gridVars, histVars, restVars>>

\* ---- GetDebrisField ----
GetDebrisFieldCall(h) ==
    /\ spc[h] = "idle"
    /\ spc' = [spc EXCEPT ![h] = "gd_lock"]
    /\ UNCHANGED <<system_mutex, store_time, tles_count, debris_count, loop_t, steps_left,
                   sarg, cancelled>>
    /\ UNCHANGED <<gridVars, histVars, restVars>>
\* debris_model_->update_positions(system_, tles_): copies the position and velocity
\* columns of every debris object it matches
GetDebrisFieldRun(h) ==
    /\ spc[h] = "gd_run"
    /\ Exit(h)
    /\ UNCHANGED <<store_time, tles_count, debris_count>>
    /\ UNCHANGED <<gridVars, histVars, restVars>>

\* ---- SimulateManeuver: works on its own sim_system, takes no lock ----
SimulateManeuverCall(h, sat_id) ==
    /\ spc[h] = "idle"
    /\ IF ~ValidId(sat_id)
       THEN UNCHANGED <<spc, sarg>>
       ELSE /\ spc' = [spc EXCEPT ![h] = "sm_run"]
            /\ sarg' = [sarg EXCEPT ![h] = <<sat_id>>]
    /\ UNCHANGED <<system_mutex, store_time, tles_count, debris_count, loop_t, steps_left,
                   cancelled>>
    /\ UNCHANGED <<gridVars, histVars, restVars>>
SimulateManeuverRun(h) ==
    /\ spc[h] = "sm_run"
    /\ Done(h)
    /\ UNCHANGED <<system_mutex, store_time, tles_count, debris_count>>
    /\ UNCHANGED <<gridVars, histVars, restVars>>

\* ---- UpdateTLEs: one fetch result per source, merged under system_mutex_ ----
UpdateTLEsCall(h) ==
    /\ spc[h] = "idle"
    /\ spc' = [spc EXCEPT ![h] = "ut_next"]
    /\ steps_left' = [steps_left EXCEPT ![h] = NumSources]
    /\ UNCHANGED <<system_mutex, store_time, tles_count, debris_count, loop_t, sarg,
                   cancelled>>
    /\ UNCHANGED <<gridVars, histVars, restVars>>
\* for (const auto& result : results) ... if (result.success)
UpdateTLEsNext(h, success) ==
    /\ spc[h] = "ut_next"
    /\ IF steps_left[h] = 0
       THEN Done(h)
       ELSE /\ IF success
               THEN spc' = [spc EXCEPT ![h] = "ut_lock"] /\ UNCHANGED steps_left
               ELSE /\ steps_left' = [steps_left EXCEPT ![h] = steps_left[h] - 1]
                    /\ UNCHANGED spc
            /\ UNCHANGED <<loop_t, sarg, cancelled>>
    /\ UNCHANGED <<system_mutex, store_time, tles_count, debris_count>>
    /\ UNCHANGED <<gridVars, histVars, restVars>>
\* tles_ = merge_tle_sets(tles_, result.tles): added new catalog numbers
UpdateTLEsMerge(h, added) ==
    /\ spc[h] = "ut_run"
    /\ tles_count + added <= MaxTles
    /\ tles_count' = tles_count + added
    /\ steps_left' = [steps_left EXCEPT ![h] = steps_left[h] - 1]
    /\ system_mutex' = 0
    /\ spc' = [spc EXCEPT ![h] = "ut_next"]
    /\ UNCHANGED <<store_time, debris_count, loop_t, sarg, cancelled>>
    /\ UNCHANGED <<gridVars, histVars, restVars>>

RequestIds == {-1, 0, StoreCount}
InitSrv == SrvInit /\ HistStarted /\ GridIdle /\ RestIdle
SrvNext ==
    \E h \in Handlers :
        \/ SrvAcquire(h)
        \/ Cancel(h)
        \/ \E start \in StartTimes, count \in 0..MaxSteps : StreamPositionsCall(h, start, count)
        \/ \E written \in BOOLEAN : StreamPositionsStep(h, written)
        \/ \E start \in StartTimes, count \in 0..MaxSteps :
              StreamConjunctionsCall(h, start, count)
        \/ \E found \in BOOLEAN, written \in BOOLEAN, now \in {1} :
              StreamConjunctionsStep(h, found, written, now)
        \/ \E sat_id \in RequestIds, start \in StartTimes, count \in 0..MaxSteps :
              GetOrbitPathCall(h, sat_id, start, count)
        \/ \E period \in 1..MaxSteps : GetOrbitPathPeriod(h, period)
        \/ GetOrbitPathStep(h)
        \/ \E sat_id \in RequestIds, threat_id \in RequestIds :
              OptimizeManeuverCall(h, sat_id, threat_id)
        \/ OptimizeManeuverRun(h)
        \/ GetDebrisFieldCall(h) \/ GetDebrisFieldRun(h)
        \/ \E sat_id \in RequestIds : SimulateManeuverCall(h, sat_id)
        \/ SimulateManeuverRun(h)
        \/ UpdateTLEsCall(h)
        \/ \E success \in BOOLEAN : UpdateTLEsNext(h, success)
        \/ \E added \in {0, 1} : UpdateTLEsMerge(h, added)
SpecSrv == InitSrv /\ [][SrvNext]_vars

\* a handler that holds system_mutex_ is a running thread: its loop keeps taking steps
StreamStep(h) ==
    \/ \E written \in BOOLEAN : StreamPositionsStep(h, written)
    \/ \E found \in BOOLEAN, written \in BOOLEAN, now \in {1} :
          StreamConjunctionsStep(h, found, written, now)
\* the service under streaming calls, with a GetDebrisField caller waiting for the store
StreamNext ==
    \E h \in Handlers :
        \/ SrvAcquire(h)
        \/ Cancel(h)
        \/ \E start \in StartTimes, count \in 0..MaxSteps : StreamPositionsCall(h, start, count)
        \/ \E start \in StartTimes, count \in 0..MaxSteps :
              StreamConjunctionsCall(h, start, count)
        \/ StreamStep(h)
        \/ GetDebrisFieldCall(h) \/ GetDebrisFieldRun(h)
SpecStream == InitSrv /\ [][StreamNext]_vars /\ \A h \in Handlers : WF_vars(StreamStep(h))

(***************************************************************************)
(* propagate_all_optimized.                                                *)
(*                                                                         *)
(* Doubles are whole numbers in a reduced scale: angles count quarter      *)
(* turns (TwoPi = 4, so sin and cos are exact), eccentricity counts halves *)
(* (EccScale = 2).  NaN stands for every non-finite double: an infinity    *)
(* made by a division by zero reaches an output column only through sin,   *)
(* cos or a product with zero, which all give NaN.                         *)
(***************************************************************************)
NaN      == -999999
TwoPi    == 4                    \* TWOPI, in quarter turns
EccScale == 2                    \* ecc = EccScale * e
J2Factor == 64                   \* 1.5 * J2 * RE * RE in the reduced scale
MuScaled == 16                   \* MU in the reduced scale
KeplerIterations == 10

\* IEEE arithmetic on the reduced doubles
Add(a, b) == IF a = NaN \/ b = NaN THEN NaN ELSE a + b
Sub(a, b) == IF a = NaN \/ b = NaN THEN NaN ELSE a - b
Mul(a, b) == IF a = NaN \/ b = NaN THEN NaN ELSE a * b
Div(a, b) == IF a = NaN \/ b = NaN \/ b = 0 THEN NaN ELSE a \div b
Sqrt(a) ==
    IF a = NaN \/ a < 0 THEN NaN
    ELSE CHOOSE r \in 0..a : r * r <= a /\ (r + 1) * (r + 1) > a
cos_table == <<1, 0, -1, 0>>
sin_table == <<0, 1, 0, -1>>
Cos(a) == IF a = NaN THEN NaN ELSE cos_table[(a % TwoPi) + 1]
Sin(a) == IF a = NaN THEN NaN ELSE sin_table[(a % TwoPi) + 1]
\* std::atan2 to the nearest quarter turn, in (-pi, pi]
Atan2(y, x) ==
    IF y = NaN \/ x = NaN THEN NaN
    ELSE IF Abs(x) >= Abs(y) THEN (IF x >= 0 THEN 0 ELSE 2)
    ELSE IF y > 0 THEN 1 ELSE -1
\* std::fmod: the remainder has the sign of the dividend
Fmod(a, m) ==
    IF a = NaN THEN NaN ELSE IF a >= 0 THEN a % m ELSE -((-a) % m)

\* solve_kepler: Newton-Raphson from E = M, at most ten iterations
RECURSIVE KeplerLoop(_, _, _, _)
KeplerLoop(E, M, ecc, left) ==
    IF left = 0 THEN E
    ELSE LET sinE  == Sin(E)
             cosE  == Cos(E)
             delta == Sub(Sub(E, Div(Mul(ecc, sinE), EccScale)), M)
         IN IF delta = 0 THEN E
            ELSE KeplerLoop(Sub(E, Div(Mul(delta, EccScale),
                                       Sub(EccScale, Mul(ecc, cosE)))),
                            M, ecc, left - 1)
solve_kepler(M, ecc) == KeplerLoop(M, M, ecc, KeplerIterations)

\* a mean anomaly that also depends on how many calls were made before
mean_anomaly_drifting(el, t) == Add(el.M0, Mul(el.n0, t + Len(calls)))

\* double M = M0 + n0 * t
mean_anomaly(el, t) == Add(el.M0, Mul(el.n0, t))

\* e * e - 1.0
e_sq_minus_one(ecc) == ecc * ecc - EccScale * EccScale
\* 1.0 - e * e, scaled by EccScale squared
one_minus_e_sq(ecc) == EccScale * EccScale - ecc * ecc

\* one iteration of the loop of propagate_all_optimized: the six values written for an
\* object with element row el
propagate_object(el, t) ==
    LET e2        == one_minus_e_sq(el.ecc)
        p         == Div(Mul(el.a0, e2), EccScale * EccScale)
        cosi      == Cos(el.incl)
        sini      == Sin(el.incl)
        sini_sq   == Mul(sini, sini)
        factor    == Div(J2Factor, Mul(p, p))
        raan_dot  == Sub(0, Mul(Mul(factor, el.n0), cosi))
        argp_dot  == Div(Mul(Mul(factor, el.n0), Sub(4, Mul(5, sini_sq))), 2)
        raan      == Add(el.raan0, Mul(raan_dot, t))
        argp      == Add(el.argp0, Mul(argp_dot, t))
        M1        == Fmod(mean_anomaly(el, t), TwoPi)
        M         == IF M1 # NaN /\ M1 < 0 THEN M1 + TwoPi ELSE M1
        E         == solve_kepler(M, el.ecc)
        cosE      == Cos(E)
        sinE      == Sin(E)
        denom     == Sub(EccScale, Mul(el.ecc, cosE))            \* scaled
        sqrt_1_e2 == Sqrt(e2)                                    \* scaled
        sin_nu    == Div(Mul(sqrt_1_e2, sinE), denom)
        cos_nu    == Div(Sub(Mul(EccScale, cosE), el.ecc), denom)
        nu        == Atan2(sin_nu, cos_nu)
        u         == Add(argp, nu)
        r         == Div(Mul(el.a0, denom), EccScale)
        cos_u     == Cos(u)
        sin_u     == Sin(u)
        xp        == Mul(r, cos_u)
        yp        == Mul(r, sin_u)
        cos_raan  == Cos(raan)
        sin_raan  == Sin(raan)
        h         == Sqrt(Mul(MuScaled, p))
        r_dot     == Div(Mul(Mul(Sqrt(Div(MuScaled, p)), el.ecc), Sin(nu)), EccScale)
        rf_dot    == Div(h, r)
        vxp       == Sub(Mul(r_dot, cos_u), Mul(rf_dot, sin_u))
        vyp       == Add(Mul(r_dot, sin_u), Mul(rf_dot, cos_u))
    IN [ x  |-> Sub(Mul(xp, cos_raan), Mul(Mul(yp, cosi), sin_raan)),
         y  |-> Add(Mul(xp, sin_raan), Mul(Mul(yp, cosi), cos_raan)),
         z  |-> Mul(yp, sini),
         vx |-> Sub(Mul(vxp, cos_raan), Mul(Mul(vyp, cosi), sin_raan)),
         vy |-> Add(Mul(vxp, sin_raan), Mul(Mul(vyp, cosi), cos_raan)),
         vz |-> Mul(vyp, sini) ]

\* element rows as create_satellite_system fills them
ElementRow(ecc, incl, M0, n0) ==
    [ incl |-> incl, raan0 |-> 1, ecc |-> ecc, argp0 |-> 0, M0 |-> M0, n0 |-> n0,
      a0 |-> 16 ]
\* the stores propagated: elliptic orbits only, one with a hyperbolic object (e = 1.5),
\* one with a parabolic object (e = 1)
ElementStores ==
    { << ElementRow(0, 1, 0, 1), ElementRow(1, 0, 1, 1), ElementRow(1, 1, 2, 2) >>,
      << ElementRow(1, 1, 1, 1), ElementRow(3, 1, 0, 1), ElementRow(0, 0, 3, 1) >>,
      << ElementRow(2, 0, 0, 1), ElementRow(0, 1, 1, 2), ElementRow(1, 1, 3, 1) >> }
PropTimes   == {-3, 0, 1, 2}       \* time_minutes of a call
OmpThreads  == {1, 2}            \* team sizes of the parallel loop
ChunkSize   == 2                 \* schedule(static, 256) in the scale of the stores
MaxCalls    == 3                 \* propagate calls followed

\* SatelliteSystem::allocate: zero-filled columns
ZeroState == [ x |-> 0, y |-> 0, z |-> 0, vx |-> 0, vy |-> 0, vz |-> 0 ]
\* what else leaves in the columns between two calls (SimulateManeuver adds a delta-v)
Overwritten == [ x |-> 7, y |-> -7, z |-> 7, vx |-> 3, vy |-> NaN, vz |-> -3 ]

\* schedule(static, chunk): the iterations thread w of a team of n executes, in order
Iterations(w, n) ==
    SelectSeq([k \in 1..Len(elements) |-> k], LAMBDA i : ((i - 1) \div ChunkSize) % n = w)

PropInit ==
    /\ ppc = "idle"
    /\ elements \in ElementStores
    /\ state = [i \in 1..Len(elements) |-> ZeroState]
    /\ prop_t = 0 /\ prop_threads = 0
    /\ iter = <<>>
    /\ calls = <<>>
    /\ first_result = [t \in PropTimes |-> <<>>]

\* propagate_all_optimized(sys, time_minutes) is entered by a team of threads
PropagateCall(t, threads) ==
    /\ ppc \in {"idle", "done"}
    /\ Len(calls) < MaxCalls
    /\ ppc' = "running"
    /\ prop_t' = t
    /\ prop_threads' = threads
    /\ iter' = [w \in 0..(threads - 1) |-> 0]
    /\ UNCHANGED <<elements, state, calls, first_result>>
    /\ UNCHANGED propOthers

\* thread w executes its next iteration and writes the six columns of one object
PropagateIteration(w) ==
    /\ ppc = "running"
    /\ iter[w] < Len(Iterations(w, prop_threads))
    /\ LET i == Iterations(w, prop_threads)[iter[w] + 1]
       IN state' = [state EXCEPT ![i] = propagate_object(elements[i], prop_t)]
    /\ iter' = [iter EXCEPT ![w] = iter[w] + 1]
    /\ UNCHANGED <<ppc, elements, prop_t, prop_threads, calls, first_result>>
    /\ UNCHANGED propOthers

\* every thread of the team has finished: the call returns
PropagateReturn ==
    /\ ppc = "running"
    /\ \A w \in DOMAIN iter : iter[w] = Len(Iterations(w, prop_threads))
    /\ ppc' = "done"
    /\ calls' = Append(calls, <<prop_t, prop_threads>>)
    /\ first_result' = IF first_result[prop_t] = <<>>
                       THEN [first_result EXCEPT ![prop_t] = state]
                       ELSE first_result
    /\ UNCHANGED <<elements, state, prop_t, prop_threads, iter>>
    /\ UNCHANGED propOthers

\* between two calls a position and velocity row is overwritten
OverwriteState(i) ==
    /\ ppc \in {"idle", "done"}
    /\ state[i] # Overwritten
    /\ state' = [state EXCEPT ![i] = Overwritten]
    /\ ppc' = "idle"
    /\ UNCHANGED <<elements, prop_t, prop_threads, iter, calls, first_result>>
    /\ UNCHANGED propOthers

InitProp ==
    PropInit /\ GridIdle /\ HistIdle /\ SrvIdle /\ ManIdle /\ McIdle /\ QryIdle /\ ScrubIdle /\ UpdIdle /\ SimIdle /\ AutoIdle
PropNext ==
    \/ \E t \in PropTimes, threads \in OmpThreads : PropagateCall(t, threads)
    \/ \E w \in DOMAIN iter : PropagateIteration(w)
    \/ PropagateReturn
    \/ \E i \in DOMAIN state : OverwriteState(i)
SpecProp == InitProp /\ [][PropNext]_vars

(***************************************************************************)
(* ManeuverOptimizer::calculate_avoidance.                                 *)
(*                                                                         *)
(* Doubles are integers on a grid chosen so that the quotients of the      *)
(* inputs below are exact: distances and speeds in 1/KmScale km (per       *)
(* second), the mean motion in 1/NScale rad/s.  Inf, -Inf and NaN are the  *)
(* IEEE values; the operators ending in X are the IEEE operations on them. *)
(* The exponential is taken to base 2, the factor ln 2 being part of       *)
(* isp_g0, and overflows to Inf above ExpMax.                              *)
(***************************************************************************)
Inf == 1000000000
KmScale == 7200
NScale == 4
MU_EARTH == 256
EARTH_RADIUS == 16
SecondsPerMinute == 60
ExpMax == 20

IsFinite(a) == a # NaN /\ a # Inf /\ a # -Inf
Sign(a) == IF a > 0 THEN 1 ELSE IF a < 0 THEN -1 ELSE 0
NegX(a) == IF a = NaN THEN NaN ELSE -a
AbsX(a) == IF a = NaN THEN NaN ELSE IF a < 0 THEN -a ELSE a
AddX(a, b) ==
    IF a = NaN \/ b = NaN THEN NaN
    ELSE IF IsFinite(a) /\ IsFinite(b) THEN a + b
    ELSE IF IsFinite(b) THEN a
    ELSE IF IsFinite(a) \/ a = b THEN b
    ELSE NaN
SubX(a, b) == AddX(a, NegX(b))
MulX(a, b) ==
    IF a = NaN \/ b = NaN THEN NaN
    ELSE IF IsFinite(a) /\ IsFinite(b) THEN a * b
    ELSE IF a = 0 \/ b = 0 THEN NaN
    ELSE IF Sign(a) = Sign(b) THEN Inf ELSE -Inf
\* a zero divisor is +0 in every quotient of calculate_avoidance
DivX(a, b) ==
    IF a = NaN \/ b = NaN THEN NaN
    ELSE IF ~IsFinite(a) THEN
        IF ~IsFinite(b) THEN NaN ELSE IF Sign(a) * Sign(b) < 0 THEN -a ELSE a
    ELSE IF ~IsFinite(b) THEN 0
    ELSE IF b = 0 THEN IF a = 0 THEN NaN ELSE IF a > 0 THEN Inf ELSE -Inf
    ELSE a \div b
SqrtX(a) ==
    IF a = NaN \/ a < 0 THEN NaN
    ELSE IF a = Inf THEN Inf
    ELSE CHOOSE r \in 0..a : r * r <= a /\ (r + 1) * (r + 1) > a
ExpX(a) ==
    IF a = NaN THEN NaN
    ELSE IF a > ExpMax THEN Inf
    ELSE IF a < 0 THEN 0
    ELSE 2 ^ a
LessX(a, b) == a # NaN /\ b # NaN /\ a < b
LeqX(a, b) == a # NaN /\ b # NaN /\ a <= b

Vec3(x, y, z) == [x |-> x, y |-> y, z |-> z]
magnitude(v) == SqrtX(AddX(AddX(MulX(v.x, v.x), MulX(v.y, v.y)), MulX(v.z, v.z)))

\* mass_kg * (1 - 1 / mass_ratio), written mass_kg - mass_kg / mass_ratio
fuel_required(sc, delta_v) ==
    LET mass_ratio == ExpX(DivX(delta_v, sc.isp_g0))
    IN  SubX(sc.mass_kg, DivX(sc.mass_kg, mass_ratio))
can_execute(sc, delta_v) == LeqX(fuel_required(sc, delta_v), sc.fuel_mass_kg)

calculate_semi_major_axis(sat_pos, sat_vel) ==
    LET r == magnitude(sat_pos)
        v == magnitude(sat_vel)
        energy == SubX(DivX(MulX(v, v), 2), DivX(MU_EARTH, r))
    IN  DivX(-MU_EARTH, MulX(2, energy))
\* the mean motion, in 1/NScale rad/s
calculate_mean_motion(a) ==
    SqrtX(DivX(NScale * NScale * MU_EARTH, MulX(MulX(a, a), a)))

Option(dv, mag, desc) == [dv |-> dv, magnitude |-> mag, desc |-> desc]
\* std::sort over three elements is an insertion sort: x moves left past
\* every element it compares less than
RECURSIVE InsertOption(_, _)
InsertOption(sorted, x) ==
    IF sorted # <<>> /\ LessX(x.magnitude, sorted[Len(sorted)].magnitude)
    THEN Append(InsertOption(SubSeq(sorted, 1, Len(sorted) - 1), x), sorted[Len(sorted)])
    ELSE Append(sorted, x)
sort_descending(options) ==
    LET s == InsertOption(InsertOption(<<options[1]>>, options[2]), options[3])
    IN  <<s[3], s[2], s[1]>>
sort(options) ==
    InsertOption(InsertOption(<<options[1]>>, options[2]), options[3])

\* the candidate burns, in the order the source lists them
Candidates(args, safe) ==
    LET dt_seconds == MulX(args.time_to_tca_minutes, SecondsPerMinute)
        a == calculate_semi_major_axis(args.sat_pos, args.sat_vel)
        n == calculate_mean_motion(a)
        req_separation == SubX(safe, args.current_miss_distance)
        dv_radial == DivX(MulX(req_separation, n), MulX(MulX(3, dt_seconds), NScale))
        dv_intrack == DivX(req_separation, MulX(2, dt_seconds))
        dv_crosstrack == DivX(req_separation, dt_seconds)
    IN  << Option(<<dv_radial, 0, 0>>, AbsX(dv_radial), "Radial burn"),
           Option(<<0, dv_intrack, 0>>, AbsX(dv_intrack), "In-track burn"),
           Option(<<0, 0, dv_crosstrack>>, AbsX(dv_crosstrack), "Cross-track burn") >>

Alternative(sc, safe, option) ==
    [delta_v |-> option.dv, burn_time |-> 0, new_miss_distance |-> safe,
     fuel_cost_kg |-> fuel_required(sc, option.magnitude), description |-> option.desc]

already_safe_strict(req_separation) == LessX(req_separation, 0)
already_safe(req_separation) == LeqX(req_separation, 0)

\* burn_time is left unset on the early return; the message of a success is
\* the description of the burn followed by a fixed text
calculate_avoidance(sc, safe, args, unset) ==
    LET req_separation == SubX(safe, args.current_miss_distance)
        options == sort(Candidates(args, safe))
        total == options[1].magnitude
        primary == [success |-> FALSE, message |-> "Insufficient fuel for maneuver",
                    delta_v |-> options[1].dv, burn_time |-> 0, total_delta_v |-> total,
                    new_miss_distance |-> safe,
                    fuel_cost_kg |-> fuel_required(sc, total), alternatives |-> <<>>]
    IN  IF already_safe(req_separation)
        THEN [success |-> TRUE, message |-> "Current miss distance already safe",
              delta_v |-> <<0, 0, 0>>, burn_time |-> unset, total_delta_v |-> 0,
              new_miss_distance |-> args.current_miss_distance,
              fuel_cost_kg |-> 0, alternatives |-> <<>>]
        ELSE IF ~can_execute(sc, total) THEN primary
        ELSE [primary EXCEPT !.success = TRUE, !.message = options[1].desc,
                             !.alternatives = << Alternative(sc, safe, options[2]),
                                                 Alternative(sc, safe, options[3]) >>]

\* SpacecraftParams: the defaults, a spacecraft without fuel and one that
\* carries its own mass in fuel
DefaultSpacecraft == [mass_kg |-> 16, isp_g0 |-> 6, fuel_mass_kg |-> 8]
Spacecrafts ==
    { DefaultSpacecraft, [mass_kg |-> 16, isp_g0 |-> 1, fuel_mass_kg |-> 0],
      [mass_kg |-> 16, isp_g0 |-> 6, fuel_mass_kg |-> 16] }
SafeDistances == {KmScale, 2 * KmScale}
\* protected objects: circular orbits of radius 16, 4 and 1, the apoapsis of
\* an orbit of semi-major axis 16, a parabolic and a hyperbolic state, a
\* state of all zeros (never propagated) and the NaN row the propagator
\* leaves for e >= 1
SatStates ==
    { <<Vec3(16, 0, 0), Vec3(0, 4, 0)>>, <<Vec3(0, 4, 0), Vec3(0, 0, 8)>>,
      <<Vec3(0, 32, 0), Vec3(0, 0, 0)>>,
      <<Vec3(0, 0, 1), Vec3(16, 0, 0)>>, <<Vec3(8, 0, 0), Vec3(0, 8, 0)>>,
      <<Vec3(16, 0, 0), Vec3(0, 8, 0)>>, <<Vec3(0, 0, 0), Vec3(0, 0, 0)>>,
      <<Vec3(NaN, NaN, NaN), Vec3(NaN, NaN, NaN)>> }
TcaMinutes == {10, 5, 0, -10}
MissDistances == {0, KmScale, 5 * KmScale}
Unset == {0, NaN}
ManArgs ==
    { [sat_pos |-> s[1], sat_vel |-> s[2], time_to_tca_minutes |-> m,
       current_miss_distance |-> d] : s \in SatStates, m \in TcaMinutes, d \in MissDistances }

ManInit ==
    /\ spacecraft_ = DefaultSpacecraft
    /\ safe_distance_ = KmScale
    /\ man_args = <<>>
    /\ man_conf = <<>>
    /\ result = <<>>

SetSpacecraft(params) ==
    /\ spacecraft_' = params
    /\ UNCHANGED <<safe_distance_, man_args, man_conf, result>>
    /\ UNCHANGED manOthers

SetSafeDistance(km) ==
    /\ safe_distance_' = km
    /\ UNCHANGED <<spacecraft_, man_args, man_conf, result>>
    /\ UNCHANGED manOthers

CalculateAvoidance(args, unset) ==
    /\ unset = 0 \/ already_safe(SubX(safe_distance_, args.current_miss_distance))
    /\ man_args' = <<args>>
    /\ man_conf' = <<spacecraft_, safe_distance_>>
    /\ result' = <<calculate_avoidance(spacecraft_, safe_distance_, args, unset)>>
    /\ UNCHANGED <<spacecraft_, safe_distance_>>
    /\ UNCHANGED manOthers

InitMan ==
    ManInit /\ GridIdle /\ HistIdle /\ SrvIdle /\ PropIdle /\ McIdle /\ QryIdle /\ ScrubIdle /\ UpdIdle /\ SimIdle /\ AutoIdle
ManNext ==
    \/ \E params \in Spacecrafts : SetSpacecraft(params)
    \/ \E km \in SafeDistances : SetSafeDistance(km)
    \/ \E args \in ManArgs, unset \in Unset : CalculateAvoidance(args, unset)
SpecMan == InitMan /\ [][ManNext]_vars

(***************************************************************************)
(* CollisionProbabilityCalculator: the Monte-Carlo loop of calculate.      *)
(*                                                                         *)
(* The generator is a full-period congruential generator modulo RngPeriod  *)
(* and a draw of normal_dist_ advances it once and reads the deviate off   *)
(* its state.  Distances are kept squared, lengths in units of 0.1 km.     *)
(* The probability hits / sample_count_ is kept in 1/ProbScale.            *)
(***************************************************************************)
MaxSamples == 3
RngPeriod == 16
ProbScale == 60
Deviates == <<0, 1, -1, 2, 0, -2, 1, 0, -1, 3, 0, 1, -3, -1, 0, 2>>

\* std::mt19937_64(seed) and one step of it
Seeded(seed) == seed % RngPeriod
Step(g) == (5 * g + 3) % RngPeriod
\* normal_dist_(rng_): <<deviate, generator afterwards>>
normal_dist(g) == <<Deviates[Step(g) + 1], Step(g)>>

\* sample_position(nominal, cov): <<position, generator afterwards>>
sample_position(g, nominal, cov) ==
    LET dx == normal_dist(g)
        dy == normal_dist(dx[2])
        dz == normal_dist(dy[2])
    IN  << <<nominal[1] + dx[1] * cov[1], nominal[2] + dy[1] * cov[2],
             nominal[3] + dz[1] * cov[3]>>, dz[2] >>

is_hit_outside(dist_sq, radius) == radius < 0 \/ dist_sq > radius * radius
\* dist < collision_radius_
is_hit(dist_sq, radius) == radius > 0 /\ dist_sq < radius * radius

\* the sampling loop: acc holds the generator, collisions, min and max
RECURSIVE MonteCarloLoop(_, _, _, _)
MonteCarloLoop(acc, left, args, radius) ==
    IF left <= 0 THEN acc
    ELSE LET s1 == sample_position(acc.rng, args.pos1, args.cov1)
             s2 == sample_position(s1[2], args.pos2, args.cov2)
             dist_sq == distance_squared(s1[1], s2[1])
         IN  MonteCarloLoop(
                 [rng |-> s2[2],
                  collisions |-> acc.collisions + (IF is_hit(dist_sq, radius) THEN 1 ELSE 0),
                  min_sq |-> IF acc.min_sq = Inf \/ dist_sq < acc.min_sq
                             THEN dist_sq ELSE acc.min_sq,
                  max_sq |-> IF dist_sq > acc.max_sq THEN dist_sq ELSE acc.max_sq],
                 left - 1, args, radius)

\* calculate: the result (the mean and the deviation of the sampled distance
\* left out) and the generator afterwards
calculate_probability(g, count, radius, args) ==
    LET acc == MonteCarloLoop([rng |-> g, collisions |-> 0, min_sq |-> Inf, max_sq |-> 0],
                              count, args, radius)
    IN  [result |->
            [combined_radius |-> radius, samples_taken |-> count,
             miss_distance_sq |-> distance_squared(args.pos1, args.pos2),
             collisions_detected |-> acc.collisions,
             collision_probability |-> (acc.collisions * ProbScale) \div count,
             min_miss_distance_sq |-> acc.min_sq, max_miss_distance_sq |-> acc.max_sq],
         rng |-> acc.rng]

Seeds == {42, 7}
DefaultSeed == 42
SampleCounts == 1..MaxSamples
Radii == 0..4
DefaultCovariance == <<1, 5, 3>>
McArgs ==
    { [pos1 |-> <<0, 0, 0>>, cov1 |-> c1, pos2 |-> p2, cov2 |-> c2] :
        p2 \in {<<1, 0, 0>>, <<0, 2, 1>>},
        c1 \in {DefaultCovariance, <<0, 0, 0>>}, c2 \in {DefaultCovariance, <<1, 1, 1>>} }

\* CollisionProbabilityCalculator(seed); sample_count_ at the least count of
\* the model, collision_radius_ at its unit
Constructed(seed) ==
    /\ rng_ = Seeded(seed)
    /\ sample_count_ = 1
    /\ collision_radius_ = 1
    /\ mc_seed = seed
    /\ mc_fresh = FALSE
    /\ mc_args = <<>>
    /\ mc_result = <<>>

\* a new calculator takes the place of the old one
Construct(seed) ==
    /\ rng_' = Seeded(seed)
    /\ sample_count_' = 1
    /\ collision_radius_' = 1
    /\ mc_seed' = seed
    /\ mc_fresh' = FALSE
    /\ mc_args' = <<>>
    /\ mc_result' = <<>>
    /\ UNCHANGED mcOthers

SetSampleCount(count) ==
    /\ sample_count_' = count
    /\ UNCHANGED <<rng_, collision_radius_, mc_seed, mc_fresh, mc_args, mc_result>>
    /\ UNCHANGED mcOthers

SetCollisionRadius(radius_km) ==
    /\ collision_radius_' = radius_km
    /\ UNCHANGED <<rng_, sample_count_, mc_seed, mc_fresh, mc_args, mc_result>>
    /\ UNCHANGED mcOthers

Calculate(args) ==
    LET r == calculate_probability(rng_, sample_count_, collision_radius_, args)
    IN  /\ rng_' = r.rng
        /\ mc_args' = <<args>>
        /\ mc_result' = <<r.result>>
        /\ mc_fresh' = (mc_result = <<>>)
        /\ UNCHANGED <<sample_count_, collision_radius_, mc_seed>>
        /\ UNCHANGED mcOthers

InitMc ==
    /\ Constructed(DefaultSeed)
    /\ GridIdle /\ HistIdle /\ SrvIdle /\ PropIdle /\ ManIdle /\ QryIdle /\ ScrubIdle /\ UpdIdle /\ SimIdle /\ AutoIdle
McNext ==
    \/ \E seed \in Seeds : Construct(seed)
    \/ \E count \in SampleCounts : SetSampleCount(count)
    \/ \E radius_km \in Radii : SetCollisionRadius(radius_km)
    \/ \E args \in McArgs : Calculate(args)
SpecMc == InitMc /\ [][McNext]_vars

(***************************************************************************)
(* HistoryRecorder::get_snapshot_at and get_snapshot_nearest, on the deque *)
(* one caller builds with record_snapshot.  Times are in units of half the *)
(* tolerance of get_snapshot_at (0.0005 min).                              *)
(***************************************************************************)
Tolerance == 2
QueryCap == 3
RecordTimes == {0, 1, 4}
QueryTimes == {0, 1, 2, 4, 5}

\* std::lower_bound(first, last, t, s.time_minutes < t): the halving search
RECURSIVE LowerBoundFrom(_, _, _, _)
LowerBoundFrom(q, first, len, t) ==
    IF len <= 0 THEN first
    ELSE LET half == len \div 2
             mid == first + half
         IN  IF q[mid].time_minutes < t
             THEN LowerBoundFrom(q, mid + 1, len - half - 1, t)
             ELSE LowerBoundFrom(q, first, half, t)
\* the position found: Len(q) + 1 stands for snapshots_.end()
lower_bound(q, t) == LowerBoundFrom(q, 1, Len(q), t)

get_snapshot_at(q, t) ==
    LET it == lower_bound(q, t)
    IN  IF it <= Len(q) /\ Abs(q[it].time_minutes - t) < Tolerance
        THEN <<q[it]>> ELSE <<>>

get_snapshot_nearest(q, t) ==
    LET it == lower_bound(q, t)
    IN  IF q = <<>> THEN <<>>
        ELSE IF it > Len(q) THEN <<q[Len(q)]>>
        ELSE IF it = 1 THEN <<q[1]>>
        ELSE IF Abs(q[it].time_minutes - t) < Abs(q[it - 1].time_minutes - t)
             THEN <<q[it]>> ELSE <<q[it - 1]>>

\* the recorder after start(), with threads T idle
HistRecording(T, cap) ==
    /\ recording = TRUE
    /\ config = [max_snapshots |-> cap, max_conjunction_events |-> 1,
                 record_conjunctions |-> TRUE]
    /\ snapshots = <<>> /\ events = <<>>
    /\ mutex = 0
    /\ hpc = [t \in T |-> "idle"]
    /\ harg = [t \in T |-> 0]
    /\ file = <<>>
    /\ gate = "started"
    /\ recorded = <<>> /\ exported = <<>> /\ after_import = FALSE

\* the query takes mutex_ and gives it back within the step
GetSnapshotAt(t, time_minutes) ==
    /\ hpc[t] = "idle" /\ mutex = 0
    /\ q_op' = "at"
    /\ q_time' = time_minutes
    /\ q_deque' = snapshots
    /\ q_result' = get_snapshot_at(snapshots, time_minutes)
    /\ UNCHANGED qryOthers

GetSnapshotNearest(t, time_minutes) ==
    /\ hpc[t] = "idle" /\ mutex = 0
    /\ q_op' = "nearest"
    /\ q_time' = time_minutes
    /\ q_deque' = snapshots
    /\ q_result' = get_snapshot_nearest(snapshots, time_minutes)
    /\ UNCHANGED qryOthers

InitQuery ==
    /\ HistRecording({Caller}, QueryCap) /\ QryIdle
    /\ GridIdle /\ SrvIdle /\ PropIdle /\ ManIdle /\ McIdle /\ ScrubIdle /\ UpdIdle /\ SimIdle /\ AutoIdle
QueryNext ==
    \/ Acquire(Caller)
    \/ \E time \in RecordTimes : RecordSnapshotCall(Caller, time)
    \/ RecordSnapshotCheck(Caller)
    \/ \E now \in {1} : RecordSnapshotBody(Caller, now)
    \/ \E time \in QueryTimes : GetSnapshotAt(Caller, time)
    \/ \E time \in QueryTimes : GetSnapshotNearest(Caller, time)
SpecQuery == InitQuery /\ [][QueryNext]_vars

(***************************************************************************)
(* TimeScrubber on the recorder of one caller.  Times are in minutes, the  *)
(* playback speed in 1/SpeedScale.                                         *)
(***************************************************************************)
SpeedScale == 10
MinSpeed == 1
MaxSpeed == 100
ScrubCap == 2
ScrubTimes == {0, 10}
SeekTimes == {5, 40}
Speeds == {0, 10, 500}
DeltaSeconds == {600, 6000, -6000}

Min(a, b) == IF b < a THEN b ELSE a

\* get_time_range: a value-initialised TimeRange when the deque is empty
get_time_range(q) ==
    IF q = <<>> THEN [start_minutes |-> 0, end_minutes |-> 0]
    ELSE [start_minutes |-> q[1].time_minutes, end_minutes |-> q[Len(q)].time_minutes]

\* callback_(current_time_, snapshot ? &*snapshot : nullptr), when callback_ is set
Notified(time) ==
    IF callback_ THEN <<get_snapshot_nearest(snapshots, time)>> ELSE cb_log

\* the clamp of tick: <<cursor, playing_>>
clamp(moved, range, playing) ==
    LET at_end == moved > range.end_minutes
        upper == IF at_end THEN range.end_minutes ELSE moved
    IN  << IF upper < range.start_minutes THEN range.start_minutes ELSE upper,
           IF at_end THEN FALSE ELSE playing >>

ScrubInit ==
    /\ current_time_ = 0
    /\ playback_speed_ = SpeedScale
    /\ playing_ = FALSE
    /\ callback_ = FALSE
    /\ cb_log = <<>>

\* the scrubber runs on the caller's thread, between its calls of the recorder
ScrubberTurn == hpc[Caller] = "idle" /\ mutex = 0

Play ==
    /\ ScrubberTurn
    /\ playing_' = TRUE
    /\ UNCHANGED <<current_time_, playback_speed_, callback_, cb_log>>
    /\ UNCHANGED scrubOthers

Pause ==
    /\ ScrubberTurn
    /\ playing_' = FALSE
    /\ UNCHANGED <<current_time_, playback_speed_, callback_, cb_log>>
    /\ UNCHANGED scrubOthers

ScrubStop ==
    /\ ScrubberTurn
    /\ playing_' = FALSE
    /\ current_time_' = get_time_range(snapshots).start_minutes
    /\ UNCHANGED <<playback_speed_, callback_, cb_log>>
    /\ UNCHANGED scrubOthers

Seek(time_minutes) ==
    /\ ScrubberTurn
    /\ current_time_' = time_minutes
    /\ cb_log' = Notified(time_minutes)
    /\ UNCHANGED <<playback_speed_, playing_, callback_>>
    /\ UNCHANGED scrubOthers

SetPlaybackSpeed(speed) ==
    /\ ScrubberTurn
    /\ playback_speed_' = Max(MinSpeed, Min(MaxSpeed, speed))
    /\ UNCHANGED <<current_time_, playing_, callback_, cb_log>>
    /\ UNCHANGED scrubOthers

SetTimeUpdateCallback ==
    /\ ScrubberTurn
    /\ callback_' = TRUE
    /\ UNCHANGED <<current_time_, playback_speed_, playing_, cb_log>>
    /\ UNCHANGED scrubOthers

Tick(delta_seconds) ==
    /\ ScrubberTurn
    /\ IF ~playing_
       THEN UNCHANGED scrubVars
       ELSE LET delta_minutes == (delta_seconds * playback_speed_) \div (60 * SpeedScale)
                range == get_time_range(snapshots)
                c == clamp(current_time_ + delta_minutes, range, playing_)
            IN  /\ current_time_' = c[1]
                /\ playing_' = c[2]
                /\ cb_log' = Notified(c[1])
                /\ UNCHANGED <<playback_speed_, callback_>>
    /\ UNCHANGED scrubOthers

InitScrub ==
    /\ HistRecording({Caller}, ScrubCap) /\ ScrubInit
    /\ GridIdle /\ SrvIdle /\ PropIdle /\ ManIdle /\ McIdle /\ QryIdle /\ UpdIdle /\ SimIdle /\ AutoIdle
ScrubNext ==
    \/ Acquire(Caller)
    \/ \E time \in ScrubTimes : RecordSnapshotCall(Caller, time)
    \/ RecordSnapshotCheck(Caller)
    \/ \E now \in {1} : RecordSnapshotBody(Caller, now)
    \/ Play \/ Pause \/ ScrubStop
    \/ \E time \in SeekTimes : Seek(time)
    \/ \E speed \in Speeds : SetPlaybackSpeed(speed)
    \/ SetTimeUpdateCallback
    \/ \E delta_seconds \in DeltaSeconds : Tick(delta_seconds)
SpecScrub == InitScrub /\ [][ScrubNext]_vars

(***************************************************************************)
(* merge_tle_sets.  A TLE is kept by the fields the merge reads, and its   *)
(* name to tell records of one catalog number apart.                       *)
(***************************************************************************)
MaxMerge == 2
CatalogNumbers == {25544, 40000}
Epochs == {2460000, 2460001}
Names == {"A", "B"}
Tles == [catalog_number : CatalogNumbers, epoch_jd : Epochs, name : Names]
RECURSIVE SeqsUpTo(_, _)
SeqsUpTo(S, n) ==
    IF n = 0 THEN {<<>>}
    ELSE LET shorter == SeqsUpTo(S, n - 1)
         IN  shorter \cup {Append(q, x) : q \in {r \in shorter : Len(r) = n - 1}, x \in S}
TleSets == SeqsUpTo(Tles, MaxMerge)

\* merged[tle.catalog_number] = tle on a std::map<int, TLE>
Assign(merged, tle) ==
    [k \in DOMAIN merged \cup {tle.catalog_number} |->
        IF k = tle.catalog_number THEN tle ELSE merged[k]]

\* for (tle : existing) merged[tle.catalog_number] = tle
RECURSIVE AddExisting(_, _)
AddExisting(merged, existing) ==
    IF existing = <<>> THEN merged
    ELSE AddExisting(Assign(merged, Head(existing)), Tail(existing))

\* for (tle : updates) if (it == merged.end() || it->second.epoch_jd < tle.epoch_jd)
RECURSIVE AddUpdates(_, _)
AddUpdates(merged, updates) ==
    IF updates = <<>> THEN merged
    ELSE LET tle == Head(updates)
             newer == \/ tle.catalog_number \notin DOMAIN merged
                      \/ merged[tle.catalog_number].epoch_jd < tle.epoch_jd
         IN  AddUpdates(IF newer THEN Assign(merged, tle) ELSE merged, Tail(updates))

\* for ([id, tle] : merged) result.push_back(tle): in ascending key order
RECURSIVE ToVector(_)
ToVector(merged) ==
    IF DOMAIN merged = {} THEN <<>>
    ELSE LET first == CHOOSE k \in DOMAIN merged : \A j \in DOMAIN merged : k <= j
         IN  <<merged[first]>> \o ToVector([k \in DOMAIN merged \ {first} |-> merged[k]])

merge_tle_sets(existing, updates) ==
    ToVector(AddUpdates(AddExisting(<<>>, existing), updates))

\* the two vectors of a call that has not returned yet
MergeInit == merge_args \in TleSets \X TleSets /\ merge_result = <<>>

MergeTleSets ==
    /\ merge_args # <<>> /\ merge_result = <<>>
    /\ merge_result' = <<merge_tle_sets(merge_args[1], merge_args[2])>>
    /\ UNCHANGED merge_args
    /\ UNCHANGED mergeOthers

InitMerge ==
    /\ MergeInit /\ FetchIdle
    /\ GridIdle /\ HistIdle /\ SrvIdle /\ PropIdle /\ ManIdle /\ McIdle /\ QryIdle /\ ScrubIdle
    /\ SimIdle /\ AutoIdle
MergeNext == MergeTleSets
SpecMerge == InitMerge /\ [][MergeNext]_vars

(***************************************************************************)
(* TLEUpdater::fetch_sync.  http_get gives "" (nothing was read), throws,  *)
(* or gives a body: "tle" parses to one TLE, "junk" to none, and on "bad"  *)
(* parse_tle_text throws.                                                  *)
(***************************************************************************)
DefaultMaxRetries == 3
MaxFetches == 2
Retries == -1..DefaultMaxRetries
Bodies == {"tle", "junk", "bad"}
Responses == {"", "throw"} \cup Bodies

FetchInit ==
    /\ max_retries_ = DefaultMaxRetries
    /\ stats_ = [total_fetches |-> 0, successful_fetches |-> 0, failed_fetches |-> 0]
    /\ fpc = "idle" /\ attempts = 0 /\ data = "" /\ responses = <<>>
    /\ fetch_result = <<>>

Counted(field) == [stats_ EXCEPT ![field] = stats_[field] + 1]

\* the result of fetch_sync when data is empty after the loop
FetchFailed ==
    [success |-> FALSE, error_message |-> "Failed to fetch data after", tles |-> 0]

\* the result of fetch_sync on a body: parse_tle_text and the three outcomes
Parsed(body) ==
    CASE body = "tle"  -> [success |-> TRUE, error_message |-> "", tles |-> 1]
      [] body = "junk" -> [success |-> FALSE, error_message |-> "No valid TLEs found in response",
                           tles |-> 0]
      [] OTHER         -> [success |-> FALSE, error_message |-> "Parse error: ", tles |-> 0]

\* a loop that tests  attempts <= max_retries_
MayAttemptInclusive == attempts <= max_retries_
\* while (attempts < max_retries_)
MayAttempt == attempts < max_retries_

SetMaxRetries(retries) ==
    /\ fpc \in {"idle", "done"}
    /\ max_retries_' = retries
    /\ fpc' = "idle"
    /\ UNCHANGED <<stats_, attempts, data, responses, fetch_result>>
    /\ UNCHANGED fetchOthers

\* fetch_sync up to the loop
FetchSyncCall ==
    /\ fpc \in {"idle", "done"}
    /\ stats_.total_fetches < MaxFetches
    /\ stats_' = Counted("total_fetches")
    /\ fpc' = "loop" /\ attempts' = 0 /\ data' = "" /\ responses' = <<>>
    /\ UNCHANGED <<max_retries_, fetch_result>>
    /\ UNCHANGED fetchOthers

\* one pass of the loop; a body ends the loop and the rest of fetch_sync runs
Attempt(response) ==
    /\ fpc = "loop" /\ MayAttempt
    /\ responses' = Append(responses, response)
    /\ IF response \in Bodies
       THEN /\ data' = response
            /\ fetch_result' = Parsed(response)
            /\ stats_' = Counted(IF Parsed(response).success THEN "successful_fetches"
                                 ELSE "failed_fetches")
            /\ fpc' = "done"
            /\ UNCHANGED attempts
       ELSE /\ attempts' = attempts + 1
            /\ data' = IF response = "throw" THEN data ELSE response
            /\ UNCHANGED <<fetch_result, stats_, fpc>>
    /\ UNCHANGED max_retries_
    /\ UNCHANGED fetchOthers

\* the loop ends with data empty
GiveUp ==
    /\ fpc = "loop" /\ ~MayAttempt
    /\ fetch_result' = IF data = "" THEN FetchFailed ELSE Parsed(data)
    /\ stats_' = Counted(IF fetch_result'.success THEN "successful_fetches"
                         ELSE "failed_fetches")
    /\ fpc' = "done"
    /\ UNCHANGED <<max_retries_, attempts, data, responses>>
    /\ UNCHANGED fetchOthers

InitFetch ==
    /\ FetchInit /\ MergeIdle
    /\ GridIdle /\ HistIdle /\ SrvIdle /\ PropIdle /\ ManIdle /\ McIdle /\ QryIdle /\ ScrubIdle
    /\ SimIdle /\ AutoIdle
FetchNext ==
    \/ \E retries \in Retries : SetMaxRetries(retries)
    \/ FetchSyncCall
    \/ \E response \in Responses : Attempt(response)
    \/ GiveUp
SpecFetch == InitFetch /\ [][FetchNext]_vars

(***************************************************************************)
(* OrbitOpsServiceImpl::SimulateManeuver.  The handler takes no lock and   *)
(* works on a system of its own, so one action is the whole call.  A       *)
(* SatelliteSystem row keeps the elements (el) next to the state columns   *)
(* (st); times are whole minutes written in seconds.                       *)
(***************************************************************************)
SimStep       == 60              \* step, seconds
CloseApproach == 20              \* the 100.0 km of the close-approach test, reduced
MaxDouble     == Inf             \* std::numeric_limits<double>::max()
NoSpacecraft  == <<>>            \* has_spacecraft() is false
DeltaVs       == { Vec3(0, 0, 0), Vec3(1, 0, 0), Vec3(0, -2, 1) }
BurnTimes     == {0, 60}
ManeuverRequests ==
    [ satellite_id : -1..3, delta_v : DeltaVs, burn_time : BurnTimes,
      spacecraft : {NoSpacecraft, DefaultSpacecraft,
                    [mass_kg |-> 16, isp_g0 |-> 1, fuel_mass_kg |-> 0]} ]

\* create_satellite_system: the elements of every TLE, zero-filled columns
SimSystem(tles) == [i \in DOMAIN tles |-> [el |-> tles[i], st |-> ZeroState]]
\* propagate_all_optimized: every column is computed from the elements
PropagateSystem(sys, time_minutes) ==
    [i \in DOMAIN sys |-> [el |-> sys[i].el, st |-> propagate_object(sys[i].el, time_minutes)]]
\* sim_system.vx[sat_id] += dvx, and vy, vz
ApplyDeltaV(sys, sat_id, dv) ==
    [sys EXCEPT ![sat_id + 1].st.vx = Add(@, dv.x),
                ![sat_id + 1].st.vy = Add(@, dv.y),
                ![sat_id + 1].st.vz = Add(@, dv.z)]
Velocity(st) == Vec3(st.vx, st.vy, st.vz)
Position(st) == Vec3(st.x, st.y, st.z)
Norm(v) == Sqrt(Add(Add(Mul(v.x, v.x), Mul(v.y, v.y)), Mul(v.z, v.z)))
Minus(a, b) == Vec3(Sub(a.x, b.x), Sub(a.y, b.y), Sub(a.z, b.z))
\* 2 pi sqrt(r^3 / mu)
orbital_period_sec(r) == Mul(TwoPi, Sqrt(Div(Mul(Mul(r, r), r), MuScaled)))

\* the inner loop: the closest other object below the close-approach distance
RECURSIVE MissLoop(_, _, _, _)
MissLoop(sys, sat_id, i, min_miss_distance) ==
    IF i >= Len(sys) THEN min_miss_distance
    ELSE IF i = sat_id THEN MissLoop(sys, sat_id, i + 1, min_miss_distance)
    ELSE LET dist == Norm(Minus(Position(sys[sat_id + 1].st), Position(sys[i + 1].st)))
         IN  MissLoop(sys, sat_id, i + 1,
                      IF dist # NaN /\ dist < min_miss_distance /\ dist < CloseApproach
                      THEN dist ELSE min_miss_distance)
PathPoint(sys, sat_id, t) ==
    [ id |-> sat_id, position |-> Position(sys[sat_id + 1].st),
      velocity |-> Velocity(sys[sat_id + 1].st), timestamp |-> t ]
\* for (t = burn_time; t <= burn_time + orbital_period_sec; t += step)
RECURSIVE SimLoop(_, _, _, _, _, _)
SimLoop(sys, sat_id, t, end, path, min_miss_distance) ==
    IF end = NaN \/ t > end THEN [predicted_path |-> path, min_miss_distance |-> min_miss_distance]
    ELSE LET now == PropagateSystem(sys, t \div SecondsPerMinute)
         IN  SimLoop(now, sat_id, t + SimStep, end, Append(path, PathPoint(now, sat_id, t)),
                     MissLoop(now, sat_id, 0, min_miss_distance))

Rejected(message, total_dv, fuel_cost) ==
    [ success |-> FALSE, message |-> message, total_delta_v |-> total_dv,
      fuel_cost_kg |-> fuel_cost, predicted_path |-> <<>>, new_miss_distance |-> 0,
      burn_velocity |-> <<>> ]
ManeuverResponse(tles, request) ==
    LET sat_id   == request.satellite_id
        total_dv == magnitude(request.delta_v)
        sc       == request.spacecraft
        fuel     == IF sc = NoSpacecraft THEN 0 ELSE fuel_required(sc, total_dv)
        at_burn  == PropagateSystem(SimSystem(tles), request.burn_time \div SecondsPerMinute)
        burned   == ApplyDeltaV(at_burn, sat_id, request.delta_v)
        r        == Norm(Position(burned[sat_id + 1].st))
        run      == SimLoop(burned, sat_id, request.burn_time,
                            Add(request.burn_time, orbital_period_sec(r)), <<>>, MaxDouble)
    IN  IF sat_id < 0 \/ sat_id >= Len(tles) THEN Rejected("Invalid satellite ID", 0, 0)
        ELSE IF sc # NoSpacecraft /\ ~can_execute(sc, total_dv)
             THEN Rejected("Insufficient fuel for maneuver", total_dv, fuel)
        ELSE [ success |-> TRUE, message |-> "Maneuver simulated successfully",
               total_delta_v |-> total_dv, fuel_cost_kg |-> fuel,
               predicted_path |-> run.predicted_path,
               new_miss_distance |-> IF run.min_miss_distance < MaxDouble
                                     THEN run.min_miss_distance ELSE -1,
               \* ghost: the velocity of the satellite right after the delta-v was added
               burn_velocity |-> Velocity(burned[sat_id + 1].st) ]

SimInit == sim_tles \in ElementStores /\ sim_request = <<>> /\ sim_response = <<>>
\* the call reads tles_ and leaves nothing behind: a behaviour follows one call
SimulateManeuver(request) ==
    /\ sim_tles # <<>> /\ sim_request = <<>>
    /\ sim_request' = request
    /\ sim_response' = ManeuverResponse(sim_tles, request)
    /\ UNCHANGED <<sim_tles, simOthers>>

InitSim ==
    /\ SimInit
    /\ GridIdle /\ HistIdle /\ SrvIdle /\ PropIdle /\ ManIdle /\ McIdle /\ QryIdle /\ ScrubIdle
    /\ UpdIdle /\ AutoIdle
SimNext == \E request \in ManeuverRequests : SimulateManeuver(request)
SpecSim == InitSim /\ [][SimNext]_vars

(***************************************************************************)
(* TLEUpdater::start_auto_update, stop_auto_update and auto_update_loop.   *)
(* Neither call takes a lock: each access to auto_update_running_ and to   *)
(* update_thread_ is a step of its own.  Destroying a std::thread that is  *)
(* still joinable calls std::terminate, which ends the process.            *)
(***************************************************************************)
AutoCallers == {1, 2}            \* threads calling start_auto_update / stop_auto_update
MaxLoops    == 3                 \* std::thread objects created in a behaviour

Idle(c)     == apc[c] = "idle"
Joinable(t) == t # 0 /\ ~loops[t].joined
LoopRunning(t) == loops[t].lpc # "done"
\* ~unique_ptr / reset / move assignment on the pointee: ~thread()
Destroys(t) == IF Joinable(t) THEN TRUE ELSE terminated

AutoInit ==
    /\ auto_update_running_ = FALSE /\ update_thread_ = 0
    /\ apc = [c \in AutoCallers |-> "idle"] /\ made = [c \in AutoCallers |-> 0]
    /\ loops = <<>> /\ terminated = FALSE

\* if (auto_update_running_.load()) return;
StartCheck(c) ==
    /\ ~terminated /\ Idle(c)
    /\ apc' = [apc EXCEPT ![c] = IF auto_update_running_ THEN "idle" ELSE "start_store"]
    /\ UNCHANGED <<auto_update_running_, update_thread_, made, loops, terminated, autoOthers>>
\* auto_update_running_.store(true);
StartStore(c) ==
    /\ ~terminated /\ apc[c] = "start_store"
    /\ auto_update_running_' = TRUE
    /\ apc' = [apc EXCEPT ![c] = "start_make"]
    /\ UNCHANGED <<update_thread_, made, loops, terminated, autoOthers>>
\* std::make_unique<std::thread>(&TLEUpdater::auto_update_loop, ...): the loop starts
StartMake(c) ==
    /\ ~terminated /\ apc[c] = "start_make" /\ Len(loops) < MaxLoops
    /\ loops' = Append(loops, [lpc |-> "check", joined |-> FALSE])
    /\ made' = [made EXCEPT ![c] = Len(loops) + 1]
    /\ apc' = [apc EXCEPT ![c] = "start_assign"]
    /\ UNCHANGED <<auto_update_running_, update_thread_, terminated, autoOthers>>
\* update_thread_ = ...: the thread held before is destroyed
StartAssign(c) ==
    /\ ~terminated /\ apc[c] = "start_assign"
    /\ terminated' = Destroys(update_thread_)
    /\ update_thread_' = made[c]
    /\ made' = [made EXCEPT ![c] = 0]
    /\ apc' = [apc EXCEPT ![c] = "idle"]
    /\ UNCHANGED <<auto_update_running_, loops, autoOthers>>

\* auto_update_running_.store(false);
StopStore(c) ==
    /\ ~terminated /\ Idle(c)
    /\ auto_update_running_' = FALSE
    /\ apc' = [apc EXCEPT ![c] = "stop_test"]
    /\ UNCHANGED <<update_thread_, made, loops, terminated, autoOthers>>
\* if (update_thread_ && update_thread_->joinable())
StopTest(c) ==
    /\ ~terminated /\ apc[c] = "stop_test"
    /\ IF Joinable(update_thread_)
       THEN apc' = [apc EXCEPT ![c] = "stop_join"] /\ made' = [made EXCEPT ![c] = update_thread_]
       ELSE apc' = [apc EXCEPT ![c] = "stop_reset"] /\ UNCHANGED made
    /\ UNCHANGED <<auto_update_running_, update_thread_, loops, terminated, autoOthers>>
\* update_thread_->join(): returns when the loop has returned
StopJoin(c) ==
    /\ ~terminated /\ apc[c] = "stop_join"
    /\ Joinable(made[c]) /\ ~LoopRunning(made[c])
    /\ loops' = [loops EXCEPT ![made[c]].joined = TRUE]
    /\ made' = [made EXCEPT ![c] = 0]
    /\ apc' = [apc EXCEPT ![c] = "stop_reset"]
    /\ UNCHANGED <<auto_update_running_, update_thread_, terminated, autoOthers>>
\* join() on a thread another caller joined (and may have destroyed) meanwhile:
\* std::system_error leaves the call, or the process ends
StopJoinAfterJoin(c, thrown) ==
    /\ ~terminated /\ apc[c] = "stop_join"
    /\ ~Joinable(made[c])
    /\ terminated' = ~thrown
    /\ made' = [made EXCEPT ![c] = 0]
    /\ apc' = [apc EXCEPT ![c] = "idle"]
    /\ UNCHANGED <<auto_update_running_, update_thread_, loops, autoOthers>>
\* update_thread_.reset();
StopReset(c) ==
    /\ ~terminated /\ apc[c] = "stop_reset"
    /\ terminated' = Destroys(update_thread_)
    /\ update_thread_' = 0
    /\ apc' = [apc EXCEPT ![c] = "idle"]
    /\ UNCHANGED <<auto_update_running_, made, loops, autoOthers>>

\* while (auto_update_running_.load())
LoopCheck(t) ==
    /\ ~terminated /\ t \in DOMAIN loops /\ loops[t].lpc = "check"
    /\ loops' = [loops EXCEPT ![t].lpc = IF auto_update_running_ THEN "body" ELSE "done"]
    /\ UNCHANGED <<auto_update_running_, update_thread_, apc, made, terminated, autoOthers>>
\* the fetches of one pass and the sleep of ten seconds
LoopBody(t) ==
    /\ ~terminated /\ t \in DOMAIN loops /\ loops[t].lpc = "body"
    /\ loops' = [loops EXCEPT ![t].lpc = "check"]
    /\ UNCHANGED <<auto_update_running_, update_thread_, apc, made, terminated, autoOthers>>

InitAuto ==
    /\ AutoInit
    /\ GridIdle /\ HistIdle /\ SrvIdle /\ PropIdle /\ ManIdle /\ McIdle /\ QryIdle /\ ScrubIdle
    /\ UpdIdle /\ SimIdle
AutoNext ==
    \/ \E c \in AutoCallers :
        \/ StartCheck(c) \/ StartStore(c) \/ StartMake(c) \/ StartAssign(c)
        \/ StopStore(c) \/ StopTest(c) \/ StopJoin(c) \/ StopReset(c)
        \/ \E thrown \in BOOLEAN : StopJoinAfterJoin(c, thrown)
    \/ \E t \in 1..MaxLoops : LoopCheck(t) \/ LoopBody(t)
SpecAuto == InitAuto /\ [][AutoNext]_vars

(***************************************************************************)
(* Screener properties.                                                    *)
(***************************************************************************)
Screened == gpc \in {"found", "done"}

\* the unordered id pairs of a list of conjunctions
IdPairs(cs) == { {cs[k].sat1_id, cs[k].sat2_id} : k \in 1..Len(cs) }

\* the unordered object pairs of a list of conjunctions
ObjectPairs(cs) == { {cs[k].i, cs[k].j} : k \in 1..Len(cs) }

SameCell(c) == KeyOf(c.i, cell_size) = KeyOf(c.j, cell_size)

\* C1 as stated: for any positions and ANY threshold the grid screener returns the
\* same set of unordered pairs as the naive screener, for every assignment of cells
\* to worker threads.
C1_AnyThreshold ==
    Screened => IdPairs(conjunctions) = IdPairs(detect_collisions_naive)

\* C1 amended: for any positions and any threshold >= 0 the grid screener returns
\* the same set of unordered pairs as the naive screener, for every assignment of
\* cells to worker threads.
C1_SameSetAsNaive ==
    (Screened /\ threshold >= 0) =>
        /\ IdPairs(conjunctions) = IdPairs(detect_collisions_naive)
        /\ ObjectPairs(conjunctions) = ObjectPairs(detect_collisions_naive)

\* C1 witness: a finished pass with a non-negative threshold that emitted a pair
\* found inside one cell and a pair found across two cells.
C1_Witness ==
    /\ Screened /\ threshold >= 0
    /\ \E a, b \in 1..Len(conjunctions) :
          SameCell(conjunctions[a]) /\ ~SameCell(conjunctions[b])

\* C2: every Conjunction returned by find_conjunctions has sat1_id < sat2_id
\* (stated for the passes with a positive threshold).
C2_IdsOrdered ==
    (Screened /\ threshold > 0) => \A k \in 1..Len(conjunctions) :
                    conjunctions[k].sat1_id < conjunctions[k].sat2_id

\* the cells (unpacked) of two keys are neighbours: they differ by at most one per axis
Adjacent(k1, k2) ==
    LET a == unpack_cell(k1)
        b == unpack_cell(k2)
    IN k1 # k2 /\ \A d \in 1..3 : a[d] - b[d] \in {-1, 0, 1}

\* the (cell, offset) lookups of one pass that pair the cells k1 and k2
Visits(k1, k2) ==
    { <<k, o>> \in {k1, k2} \X (1..Len(offsets)) :
         neighbor_key(k, o) \in ({k1, k2} \ {k}) }

\* C3: in one call of find_conjunctions no unordered pair of objects is emitted
\* twice, and every two distinct populated adjacent cells are paired by the offset
\* traversal exactly once.
C3_NoPairTwice ==
    Screened =>
        /\ \A a, b \in 1..Len(conjunctions) :
              a # b => {conjunctions[a].i, conjunctions[a].j}
                         # {conjunctions[b].i, conjunctions[b].j}
        /\ \A k1, k2 \in DOMAIN grid :
              Adjacent(k1, k2) => Cardinality(Visits(k1, k2)) = 1

\* C3 witness: a pass that emitted at least two pairs, one of them across two
\* adjacent populated cells.
C3_Witness ==
    /\ Screened /\ threshold > 0 /\ Len(conjunctions) >= 2
    /\ \E b \in 1..Len(conjunctions) :
          /\ ~SameCell(conjunctions[b])
          /\ Adjacent(KeyOf(conjunctions[b].i, cell_size), KeyOf(conjunctions[b].j, cell_size))

\* C4: calculate_all returns exactly one record per conjunction the screener
\* emitted, with the nominal miss distance and relative speed of the two objects
\* the conjunction was measured on (stated for the passes with a positive threshold).
C4_OnePerConjunction ==
    (gpc = "done" /\ threshold > 0) =>
        /\ Len(prob_results) = Len(conjunctions)
        /\ \A k \in 1..Len(prob_results) :
              /\ prob_results[k].sat1_id = conjunctions[k].sat1_id
              /\ prob_results[k].sat2_id = conjunctions[k].sat2_id
              /\ prob_results[k].miss_distance_sq = conjunctions[k].distance_sq
              /\ prob_results[k].relative_velocity_sq =
                    calculate_relative_velocity_sq(vel[conjunctions[k].i],
                                                   vel[conjunctions[k].j])

(***************************************************************************)
(* Recorder properties.                                                    *)
(***************************************************************************)
\* the n most recent entries of a log, oldest first
MostRecent(log, n) == SubSeq(log, Len(log) - n + 1, Len(log))

\* C5: once more snapshots have been recorded than max_snapshots allows, the deque
\* holds exactly the max_snapshots most recently recorded snapshots, in the order
\* they were recorded (the oldest ones were the ones evicted).
C5_Fifo ==
    Len(recorded) > config.max_snapshots
        => snapshots = MostRecent(recorded, config.max_snapshots)

\* more snapshots recorded than the cap of 2 allows, and the two kept differ
C5_Witness ==
    /\ Len(recorded) > config.max_snapshots
    /\ config.max_snapshots = 2
    /\ Len(snapshots) = 2
    /\ snapshots[1].time_minutes # snapshots[2].time_minutes

\* a snapshot and an event without their wall-clock timestamps
SnapshotValue(sn) ==
    << sn.time_minutes, sn.positions_x, sn.positions_y, sn.positions_z, sn.satellite_ids >>
EventValue(ev) ==
    << ev.time_minutes, ev.sat1_id, ev.sat2_id, ev.sat1_name, ev.sat2_name,
       ev.miss_distance, ev.relative_velocity, ev.collision_probability >>

\* C6: right after import_from_file has read the file export_to_file wrote, the two
\* deques equal the exported ones element for element, in order, in every field but
\* the wall-clock timestamp (snapshot time, ids, positions; event time, ids, names,
\* miss distance, relative velocity, probability).
C6_RoundTrip ==
    after_import =>
        /\ Len(snapshots) = Len(exported.snapshots)
        /\ \A k \in 1..Len(snapshots) :
              SnapshotValue(snapshots[k]) = SnapshotValue(exported.snapshots[k])
        /\ Len(events) = Len(exported.events)
        /\ \A k \in 1..Len(events) :
              EventValue(events[k]) = EventValue(exported.events[k])

\* the step is the body of a record_snapshot or record_conjunction call
RecordStep ==
    \E t \in DOMAIN hpc : hpc[t] \in {"rs_body", "rc_body"} /\ hpc'[t] = "idle"

\* C7: from the moment stop() has returned until the next start() is called,
\* record_snapshot and record_conjunction append nothing to either deque, whatever
\* the interleaving of the threads.
C7_StopGate ==
    [][ (gate = "stopped" /\ RecordStep) => (snapshots' = snapshots /\ events' = events) ]_vars

\* the next step of thread t reads or writes recording_, config_ or a deque
Accessing(t) ==
    hpc[t] \in { "start_body", "stop_body", "clear_body", "rs_check", "rs_body",
                 "rc_check", "rc_body", "sc_body", "ex_body", "im_body", "get_body",
                 "ir_read", "gc_read" }

\* C8: a thread reads or writes the recorder's state only while it holds mutex_, so
\* no two threads are at an access to that state at the same time.
C8_UnderMutex ==
    /\ \A t \in DOMAIN hpc : Accessing(t) => mutex = t
    /\ \A t, u \in DOMAIN hpc : (Accessing(t) /\ Accessing(u)) => t = u

(***************************************************************************)
(* Service properties.                                                     *)
(***************************************************************************)
\* the next step of handler h writes or reads the columns of system_
AccessingStore(h) ==
    spc[h] \in {"sp_run", "sc_run", "gp1_run", "gp_run", "om_run", "gd_run"}

\* C9: a handler writes (propagates) or reads the columns of the shared store only
\* while it holds system_mutex_, so no two handlers are at the store at the same
\* time, whatever the interleaving.
C9_StoreUnderMutex ==
    /\ \A h \in DOMAIN spc : AccessingStore(h) => system_mutex = h
    /\ \A h, g \in DOMAIN spc : (AccessingStore(h) /\ AccessingStore(g)) => h = g

\* one handler is inside its propagate loop on a propagated store while the other
\* handler waits for system_mutex_ to read the same store
C9_Witness ==
    \E h, g \in DOMAIN spc :
        /\ spc[h] = "sc_run" /\ steps_left[h] > 0 /\ store_time # Fresh
        /\ spc[g] = "om_lock"

\* the next step of handler h reads position or velocity columns of system_ that the
\* handler did not propagate itself
ReadsColumns(h) ==
    \/ spc[h] = "om_run"
    \/ spc[h] = "gd_run" /\ debris_count > 0

\* C10: on a freshly constructed service no handler reads the position or velocity
\* columns of the shared store before a propagate call was applied to it.
C10_PropagatedBeforeRead ==
    \A h \in DOMAIN spc : ReadsColumns(h) => store_time # Fresh

(***************************************************************************)
(* Propagator properties.                                                  *)
(***************************************************************************)
\* C11: the columns a propagate call at time t leaves depend only on the element
\* columns and t: they equal the columns the first call at that t left, whatever the
\* columns held before the call, whatever calls were made in between and whatever
\* the size of the thread team.
C11_Deterministic ==
    ppc = "done" => state = first_result[prop_t]

\* a call at t, a call at another time, and a second call at t by a team of another
\* size, on a store whose objects all have finite states
C11_Witness ==
    /\ ppc = "done"
    /\ Len(calls) = 3
    /\ calls[1][1] = calls[3][1] /\ calls[2][1] # calls[1][1]
    /\ calls[1][2] # calls[3][2]
    /\ \A i \in DOMAIN state : state[i].x # NaN /\ state[i] # ZeroState

\* C12: an object with e >= 1 is left with zero position and velocity by a propagate
\* call, and every other object of the batch is propagated as usual.
C12_HyperbolicZeroed ==
    ppc = "done" =>
        \A i \in DOMAIN state :
            IF elements[i].ecc >= EccScale
            THEN state[i] = ZeroState
            ELSE state[i] = propagate_object(elements[i], prop_t)

(***************************************************************************)
(* Maneuver properties.                                                    *)
(***************************************************************************)
Called == result # <<>>
CallArgs == man_args[1]
CallSpacecraft == man_conf[1]
CallSafe == man_conf[2]
Returned == result[1]

\* C13: whenever the current miss distance is at least the safe distance,
\* calculate_avoidance returns success with delta_v = (0, 0, 0),
\* total_delta_v = 0, fuel_cost_kg = 0 and no alternatives, whatever the
\* protected object's state, the time to closest approach and the spacecraft.
C13_AlreadySafe ==
    Called /\ CallArgs.current_miss_distance >= CallSafe =>
        /\ Returned.success
        /\ Returned.delta_v = <<0, 0, 0>>
        /\ Returned.total_delta_v = 0
        /\ Returned.fuel_cost_kg = 0
        /\ Returned.alternatives = <<>>
\* the call of scenario S5 (miss 5 km, safe distance 1 km), made for a
\* protected object whose state is NaN by a spacecraft without fuel
C13_Witness ==
    /\ Called
    /\ CallArgs.current_miss_distance = 5 * KmScale /\ CallSafe = KmScale
    /\ CallArgs.sat_pos.x = NaN /\ CallArgs.time_to_tca_minutes = 0
    /\ CallSpacecraft.fuel_mass_kg = 0
    /\ Returned.success /\ Returned.alternatives = <<>>

\* the three candidate magnitudes as the specification states them:
\* radial dr * n / (3 tau), in-track dr / (2 tau), cross-track dr / tau
Tau == MulX(CallArgs.time_to_tca_minutes, SecondsPerMinute)
DeltaR == CallSafe - CallArgs.current_miss_distance
MeanMotion == calculate_mean_motion(calculate_semi_major_axis(CallArgs.sat_pos, CallArgs.sat_vel))
Magnitudes ==
    << AbsX(DivX(MulX(DeltaR, MeanMotion), MulX(3 * NScale, Tau))),
       AbsX(DivX(DeltaR, MulX(2, Tau))),
       AbsX(DivX(DeltaR, Tau)) >>
Axis(dv) == CHOOSE k \in 1..3 : \A j \in 1..3 : j # k => dv[j] = 0
Smallest(k) == \A j \in 1..3 : ~LessX(Magnitudes[j], Magnitudes[k])
EnoughFuel == \E k \in 1..3 : Smallest(k) /\ can_execute(CallSpacecraft, Magnitudes[k])

\* C14: whenever the required separation dr = safe distance - current miss
\* is positive and the spacecraft has the fuel for the smallest candidate,
\* calculate_avoidance returns success, total_delta_v is the minimum of the
\* three candidate magnitudes, and the alternatives are the two other
\* candidates in non-decreasing magnitude.
C14_MinimumCandidate ==
    Called /\ DeltaR > 0 /\ EnoughFuel =>
        /\ Returned.success
        /\ \E k \in 1..3 : Smallest(k) /\ Returned.total_delta_v = Magnitudes[k]
        /\ Len(Returned.alternatives) = 2
        /\ LET first == Returned.alternatives[1].delta_v
               second == Returned.alternatives[2].delta_v
           IN  /\ {Axis(Returned.delta_v), Axis(first), Axis(second)} = 1..3
               /\ \A alt \in {first, second} : AbsX(alt[Axis(alt)]) = Magnitudes[Axis(alt)]
               /\ LeqX(Magnitudes[Axis(first)], Magnitudes[Axis(second)])

\* a bound orbit that stays outside the Earth, so n <= sqrt(MU_EARTH / EARTH_RADIUS^3)
SemiMajorAxis == calculate_semi_major_axis(CallArgs.sat_pos, CallArgs.sat_vel)
EarthOrbit == IsFinite(SemiMajorAxis) /\ SemiMajorAxis >= EARTH_RADIUS

\* C15: for a time to closest approach of 10 min and a required separation
\* of 1 km on an Earth orbit, the primary burn is the in-track candidate,
\* with |dv| = 1 / (2 * 600) km/s.
C15_InTrackPrimary ==
    Called /\ CallArgs.time_to_tca_minutes = 10 /\ DeltaR = KmScale /\ EarthOrbit =>
        /\ Axis(Returned.delta_v) = 2
        /\ Returned.total_delta_v * 2 * 600 = KmScale
\* C15 as the code has it: since n < 3/2 rad/s on every Earth orbit, the
\* primary burn is the radial candidate, with |dv| = n / (3 * 600) km/s, and
\* the in-track candidate, 1 / (2 * 600) km/s, is larger.
C15_RadialPrimary ==
    Called /\ CallArgs.time_to_tca_minutes = 10 /\ DeltaR = KmScale /\ EarthOrbit =>
        /\ Axis(Returned.delta_v) = 1
        /\ Returned.total_delta_v * 3 * 600 * NScale = KmScale * MeanMotion
        /\ Returned.total_delta_v * 2 * 600 < KmScale
C15_Witness ==
    /\ Called /\ CallArgs.time_to_tca_minutes = 10 /\ DeltaR = KmScale /\ EarthOrbit
    /\ CallArgs.sat_vel.y = 4
    /\ Returned.success /\ Returned.total_delta_v > 0
    /\ Axis(Returned.alternatives[1].delta_v) = 2

(***************************************************************************)
(* Monte-Carlo properties.                                                 *)
(***************************************************************************)
\* the last call as a calculator just constructed with the same seed and set
\* to collision radius radius_km would have answered it
FreshAnswer(radius_km) ==
    calculate_probability(Seeded(mc_seed), mc_result[1].samples_taken, radius_km,
                          mc_args[1]).result

C17_Reproducible ==
    mc_result # <<>> =>
        /\ mc_result[1].collisions_detected =
               FreshAnswer(mc_result[1].combined_radius).collisions_detected
        /\ mc_result[1].collision_probability =
               FreshAnswer(mc_result[1].combined_radius).collision_probability

(***************************************************************************)
(* Snapshot query properties.                                              *)
(***************************************************************************)
Stored == {q_deque[i] : i \in DOMAIN q_deque}
Near(s, t) == Abs(s.time_minutes - t) < Tolerance

\* C18: get_snapshot_at(t) returns a stored snapshot within the tolerance (0.001
\* min) of t whenever the deque holds one, and returns nothing only when no
\* stored snapshot lies within the tolerance of t.
C18_ExactMatch ==
    q_op = "at" =>
        IF \E s \in Stored : Near(s, q_time)
        THEN q_result # <<>> /\ q_result[1] \in Stored /\ Near(q_result[1], q_time)
        ELSE q_result = <<>>

\* C19: get_snapshot_nearest(t) on a non-empty recorder returns a stored
\* snapshot at least as close to t as every other stored snapshot, for every
\* deque record_snapshot calls can build; on an empty recorder it returns
\* nothing.
C19_Nearest ==
    q_op = "nearest" =>
        IF q_deque = <<>> THEN q_result = <<>>
        ELSE /\ q_result # <<>> /\ q_result[1] \in Stored
             /\ \A s \in Stored :
                    Abs(q_result[1].time_minutes - q_time) <= Abs(s.time_minutes - q_time)

(***************************************************************************)
(* Scrubber properties.                                                    *)
(***************************************************************************)
\* the cursor a tick of delta_seconds moves to before it is clamped
Moved(delta_seconds) ==
    current_time_ + (delta_seconds * playback_speed_) \div (60 * SpeedScale)
Clamped(x, range) ==
    IF x > range.end_minutes THEN range.end_minutes
    ELSE IF x < range.start_minutes THEN range.start_minutes ELSE x

\* C20: after every tick(dt) on a playing scrubber the cursor is the old
\* cursor plus dt / 60 * speed, clamped into [start_minutes, end_minutes] of
\* the recorder's time range at that moment: it never lies outside that range.
C20_ClampedIntoRange ==
    [][ \A delta_seconds \in DeltaSeconds :
            playing_ /\ Tick(delta_seconds) =>
                LET range == get_time_range(snapshots)
                IN  /\ current_time_' = Clamped(Moved(delta_seconds), range)
                    /\ range.start_minutes <= current_time_'
                    /\ current_time_' <= range.end_minutes ]_vars

\* C21: whenever a tick leaves the cursor at the end of the recorded range,
\* playback is paused when that tick returns.
C21_PausedAtEnd ==
    [][ \A delta_seconds \in DeltaSeconds :
            (playing_ /\ Tick(delta_seconds)
                /\ current_time_' = get_time_range(snapshots).end_minutes)
            => ~playing_' ]_vars

(***************************************************************************)
(* Streaming cancellation.                                                 *)
(***************************************************************************)
Streaming(h) == spc[h] \in {"sp_run", "sc_run"}
Moves(h) == <<spc[h], loop_t[h], steps_left[h]>>' # <<spc[h], loop_t[h], steps_left[h]>>

\* C22: once the request is cancelled, StreamPositions and StreamConjunctions
\* begin no further time step: the next thing the handler does is to return and
\* release system_mutex_ without propagating, recording or writing, and it
\* does return.
C22_NoStepAfterCancel ==
    /\ [][ \A h \in Handlers :
              (Streaming(h) /\ cancelled[h] /\ Moves(h)) =>
                  /\ spc'[h] = "idle" /\ system_mutex' = 0
                  /\ UNCHANGED <<store_time, snapshots, events>> ]_vars
    /\ \A h \in Handlers : (Streaming(h) /\ cancelled[h]) ~> (spc[h] = "idle")

\* C22 witness: a streaming handler that was cancelled with time steps left holds
\* the store while the other handler waits for it.
C22_Witness ==
    \E h \in Handlers, w \in Handlers :
        /\ Streaming(h) /\ cancelled[h] /\ steps_left[h] > 0 /\ loop_t[h] > 0
        /\ w # h /\ spc[w] \in {"sp_lock", "sc_lock", "gd_lock"}

(***************************************************************************)
(* Merge properties.                                                       *)
(***************************************************************************)
Merged == merge_result # <<>>
MergeReturned == merge_result[1]
InputRecords == SeqToSet(merge_args[1]) \cup SeqToSet(merge_args[2])
Carrying(c) == {r \in InputRecords : r.catalog_number = c}

\* C23: merge_tle_sets(existing, updates) returns exactly one record per
\* catalog number occurring in either input, and that record is one with the
\* latest epoch_jd among all input records carrying that number.
C23_LatestEpochWins ==
    Merged =>
        /\ \A c \in CatalogNumbers :
              Cardinality({k \in DOMAIN MergeReturned : MergeReturned[k].catalog_number = c})
                  = IF Carrying(c) = {} THEN 0 ELSE 1
        /\ \A k \in DOMAIN MergeReturned :
              /\ MergeReturned[k] \in InputRecords
              /\ \A r \in Carrying(MergeReturned[k].catalog_number) :
                    r.epoch_jd <= MergeReturned[k].epoch_jd

(***************************************************************************)
(* Fetch properties.                                                       *)
(***************************************************************************)
NoBody(i) == responses[i] \in {"", "throw"}

\* C24: fetch_sync makes at most max_retries HTTP attempts for a source, makes
\* another attempt only after an empty or failed response, stops at the first
\* non-empty response, and returns success = false with an error message when
\* every attempt came back empty.
C24_BoundedRetries ==
    fpc \in {"loop", "done"} =>
        /\ Len(responses) <= Max(max_retries_, 0)
        /\ \A i \in 1..(Len(responses) - 1) : NoBody(i)
        /\ (fpc = "done" /\ \A i \in DOMAIN responses : NoBody(i)) =>
              /\ fetch_result.success = FALSE
              /\ fetch_result.error_message # ""
        /\ (fpc = "loop" /\ responses # <<>>) => NoBody(Len(responses))

\* C24 witness: a call under the default max_retries that returned after three
\* attempts, the first empty, the second an exception, the third empty.
C24_Witness ==
    /\ fpc = "done" /\ max_retries_ = DefaultMaxRetries
    /\ responses = <<"", "throw", "">>
    /\ fetch_result.success = FALSE

(***************************************************************************)
(* Propagator: finite outputs.                                             *)
(***************************************************************************)
\* a valid element row: 0 <= e < 1 and a positive mean motion
ValidElements(el) == 0 <= el.ecc /\ el.ecc < EccScale /\ el.n0 > 0
Columns(row) == {row.x, row.y, row.z, row.vx, row.vy, row.vz}

InRange(c) == \A d \in 1..3 : -CellBias <= c[d] /\ c[d] < CellBias
CellOf(i) == << pos_to_cell(pos[i][1], cell_size), pos_to_cell(pos[i][2], cell_size),
                pos_to_cell(pos[i][3], cell_size) >>
\* the cell index c + offset a lookup asks for
Asked == LET c == unpack_cell(probe.cell_key)
         IN  << c[1] + offsets[probe.offset][1], c[2] + offsets[probe.offset][2],
                c[3] + offsets[probe.offset][3] >>

\* C26: when a position maps to a cell index outside [-2^20, 2^20) on some axis,
\* or a neighbour lookup c + offset leaves that range, the spatial hash fails an
\* assertion: build and a lookup complete only on indices inside the range, and
\* a key always unpacks to the index it was packed from.
C26_OutOfRangeAsserts ==
    /\ gpc = "built" =>
          \A i \in Objects : InRange(CellOf(i)) /\ unpack_cell(KeyOf(i, cell_size)) = CellOf(i)
    /\ probe # <<>> => InRange(Asked) /\ unpack_cell(probe.neighbor_key) = Asked

(***************************************************************************)
(* Request ids and the store's columns.                                    *)
(***************************************************************************)
\* the handler is at a step that reads system_.x[id] ... system_.vz[id] of its ids
IndexesStore(h) == spc[h] \in {"gp1_run", "gp_run", "om_run"}

\* C27: after any sequence of RPC calls, including UpdateTLEs that merges new
\* catalog numbers into tles_, a handler that takes a satellite or threat id
\* goes on only with ids below the store's object count, so the store's
\* columns are never indexed at or beyond system_.count.
C27_IdsBelowStoreCount ==
    \A h \in Handlers :
        IndexesStore(h) =>
            \A k \in DOMAIN sarg[h] : 0 <= sarg[h][k] /\ sarg[h][k] < StoreCount

(***************************************************************************)
(* Recorder: the caps.                                                     *)
(***************************************************************************)
\* C28: after every public HistoryRecorder operation (record_snapshot,
\* record_conjunction, set_config, import_from_file, clear) the snapshot deque
\* holds at most max_snapshots elements and the event deque at most
\* max_conjunction_events elements.
C28_WithinCaps ==
    hpc[Caller] = "idle" =>
        /\ Len(snapshots) <= config.max_snapshots
        /\ Len(events) <= config.max_conjunction_events
(***************************************************************************)
(* SimulateManeuver: the delta-v.                                          *)
(***************************************************************************)
Simulated == sim_response # <<>> /\ sim_response.success
\* the same request without the burn
Unmaneuvered == [sim_request EXCEPT !.delta_v = Vec3(0, 0, 0)]

\* C29: in a simulated maneuver the delta-v takes effect: the first point of
\* the predicted path, at the burn time, has the velocity the satellite got
\* when the delta-v was added, and a burn that changed the velocity gives a
\* path other than that of the same request without a burn.
C29_DeltaVTakesEffect ==
    (Simulated /\ sim_response.predicted_path # <<>>) =>
        /\ sim_response.predicted_path[1].velocity = sim_response.burn_velocity
        /\ sim_response.burn_velocity
                # ManeuverResponse(sim_tles, Unmaneuvered).burn_velocity
            => sim_response.predicted_path
                # ManeuverResponse(sim_tles, Unmaneuvered).predicted_path

(***************************************************************************)
(* Auto-update: start and stop from several threads.                       *)
(***************************************************************************)
RunningLoops == { t \in DOMAIN loops : LoopRunning(t) }
StopReturns(c) == apc[c] = "stop_reset" /\ apc'[c] = "idle" /\ ~terminated'

\* C30: whatever the interleaving of start_auto_update and stop_auto_update
\* calls, at most one loop thread is running, no joinable thread object is
\* destroyed (the process is never terminated), and when stop_auto_update
\* returns while no other call is under way, no loop is running.
C30_OneLoopAtATime ==
    /\ [](Cardinality(RunningLoops) <= 1)
    /\ [](~terminated)
    /\ [][ \A c \in AutoCallers :
              (StopReturns(c) /\ \A o \in AutoCallers \ {c} : Idle(o))
                  => RunningLoops' = {} ]_vars

====
